---------------------------- MODULE Spec2Model ----------------------------
(***************************************************************************)
(* A model of colima-manager: the process-wide profile lock registry       *)
(* (internal/domain/colima.go), the use-case layer that orchestrates       *)
(* Start/Stop/Status/GetKubeConfig/Clean and the dependency checks         *)
(* (internal/usecase/colima_usecase.go) and the repository that runs the   *)
(* external tools (internal/infrastructure/colima/repository.go).          *)
(*                                                                         *)
(* Every goroutine (an HTTP request, a direct user of the registry) is a   *)
(* thread with a program counter.  An external process that is running is  *)
(* a value of the program counter: the step that leaves it is the exit of  *)
(* the process, whose outcome is chosen nondeterministically.              *)
(***************************************************************************)
EXTENDS Integers, Sequences, FiniteSets, TLC

\* Number of goroutines that call into the program concurrently.
NumThreads == 2

\* Number of calls the goroutines make in all.
MaxCalls == 2

Threads == 1..NumThreads

\* Profile names callers use; "" is the omitted name.
ProfileNames == {"default", "x"}

VARIABLES
    locks,      \* ProfileLock.locks : map[string]bool
    mu,         \* ProfileLock.mu : TRUE when the mutex is locked
    holders,    \* per name, the threads whose Lock(name) returned true since the last Unlock(name)
    dirs,       \* the profiles whose state directory <home>/.colima/<profile> exists
    pc,         \* per thread, where it is in the call it is running
    arg,        \* per thread, the profile name the running call works on
    req,        \* per thread, the ColimaConfig its Start call was given
    cfg,        \* per thread, the local config of its Start call after defaults are applied
    ret,        \* per thread, what its last call returned
    calls,      \* the number of calls made so far
    boot,       \* where main is in starting the default profile ("off" when it does not)
    colimaCfg,  \* the ColimaConfig main built for the default profile
    http,       \* the HTTP request a handler is working on, what the use case returned, the response
    rec,        \* whether a record is kept of what calls do
    obs         \* per thread, the record of its last call: the repository operations
                \* and the commands it ran, in order, and what came with its result

vars == <<locks, mu, holders, dirs, pc, arg, req, cfg, ret, calls, boot, colimaCfg, http, rec, obs>>

regVars == <<locks, mu, holders>>
ucVars == <<dirs, req, cfg>>
obsVars == <<rec, obs>>

-----------------------------------------------------------------------------
(* Go maps: a read of a missing key gives the zero value.                  *)

EmptyMap == [q \in {} |-> TRUE]

MapGet(m, k) == IF k \in DOMAIN m THEN m[k] ELSE FALSE

MapSet(m, k, v) == [q \in (DOMAIN m) \cup {k} |-> IF q = k THEN v ELSE m[q]]

\* Faulty variant: delete that empties the map.
MapClear(m, k) == EmptyMap

MapDelete(m, k) == [q \in (DOMAIN m) \ {k} |-> m[q]]

-----------------------------------------------------------------------------
(* domain.ColimaConfig and its defaults.                                   *)

ZeroConfig ==
    [CPUs |-> 0, Memory |-> 0, DiskSize |-> 0, VMType |-> "", Runtime |-> "",
     NetworkAddress |-> FALSE, Kubernetes |-> FALSE, Profile |-> ""]

DefaultColimaConfig ==
    [CPUs |-> 12, Memory |-> 32, DiskSize |-> 100, VMType |-> "vz",
     Runtime |-> "containerd", NetworkAddress |-> TRUE, Kubernetes |-> TRUE,
     Profile |-> "default"]

-----------------------------------------------------------------------------
(* What a thread is left with when its call returns.                       *)

Return(t, r) ==
    /\ pc' = [pc EXCEPT ![t] = "idle"]
    /\ ret' = [ret EXCEPT ![t] = r]
    /\ UNCHANGED <<arg, calls, boot, colimaCfg, http>>

Goto(t, l) ==
    /\ pc' = [pc EXCEPT ![t] = l]
    /\ UNCHANGED <<ret, arg, calls, boot, colimaCfg, http>>

\* The calls of clients are counted; main makes its calls one after another.
CanCall(t) ==
    /\ pc[t] = "idle"
    /\ IF boot \in {"off", "serving"} THEN calls < MaxCalls
                                       ELSE t = 1 /\ boot \in {"start", "poll", "next"}

\* A call is made: main, when it is the caller, now waits for it to return.
Made ==
    /\ calls' = IF boot \in {"off", "serving"} THEN calls + 1 ELSE calls
    /\ boot' = IF boot = "start" THEN "starting"
               ELSE IF boot = "poll" THEN "polling"
               ELSE IF boot = "next" THEN "kube" ELSE boot
    /\ UNCHANGED <<colimaCfg, http>>

\* A thread that is running no call makes one and is now at l.
Call(t, l, p) ==
    /\ CanCall(t)
    /\ Made
    /\ pc' = [pc EXCEPT ![t] = l]
    /\ arg' = [arg EXCEPT ![t] = p]
    /\ ret' = [ret EXCEPT ![t] = "none"]

\* A call that returns before it runs any external process.
CallReturn(t, r, p) ==
    /\ CanCall(t)
    /\ Made
    /\ ret' = [ret EXCEPT ![t] = r]
    /\ arg' = [arg EXCEPT ![t] = p]
    /\ UNCHANGED pc

-----------------------------------------------------------------------------
(* The record of a call.  cmds: the operation called, the repository       *)
(* operations entered and the commands given to the Executor with how each *)
(* exited, in order.  dep, reason: the fields of   *)
(* the fault returned, a reason being a sequence of pieces of text.  snap: *)
(* the value returned beside the error, {} standing for nil.  exitOk, out: *)
(* how the status probe exited and what it wrote.  prev: the call made     *)
(* before this one.  dirs0: the state directories there were when the call *)
(* began.                                                                  *)

\* An operation is entered; a command has run.
Op(name) == [cmd |-> name, exit |-> "call"]
Cmd(c, ok) == [cmd |-> c, exit |-> IF ok THEN "ok" ELSE "fail"]

NoPrev == [op |-> "", arg |-> "", ret |-> "none"]

NoObs ==
    [cmds |-> <<>>, dep |-> "", reason |-> <<>>, snap |-> {}, exitOk |-> TRUE, out |-> <<>>,
     prev |-> NoPrev, dirs0 |-> {}, name |-> ""]

\* A call for the profile called name begins.
Begin(t, name, cmds) ==
    /\ obs' = IF rec
                THEN [obs EXCEPT ![t] =
                        [NoObs EXCEPT !.cmds = cmds, !.dirs0 = dirs, !.name = name,
                                      !.prev = IF obs[t].cmds = <<>> THEN NoPrev
                                               ELSE [op |-> obs[t].cmds[1].cmd,
                                                     arg |-> arg[t], ret |-> ret[t]]]]
                ELSE obs
    /\ UNCHANGED rec

\* A step of a call ran cmds and left it with dep, reason and snap.
Observe(t, cmds, dep, reason, snap) ==
    /\ obs' = IF rec
                THEN [obs EXCEPT ![t] = [@ EXCEPT !.cmds = @ \o cmds, !.dep = dep,
                                                   !.reason = reason, !.snap = snap]]
                ELSE obs
    /\ UNCHANGED rec

\* The status probe exited and the call returned.
ObserveProbe(t, exitOk, out, reason, snap) ==
    /\ obs' = IF rec
                THEN [obs EXCEPT ![t] = [@ EXCEPT !.cmds = @ \o <<Cmd("colima status", exitOk)>>,
                                                   !.dep = "", !.reason = reason,
                                                   !.snap = snap, !.exitOk = exitOk,
                                                   !.out = out]]
                ELSE obs
    /\ UNCHANGED rec

-----------------------------------------------------------------------------
(* ProfileLock: Lock, Unlock and IsLocked, each under pl.mu.               *)

\* Faulty variant: a mutex that excludes nobody.
MuFreeAlways(m) == TRUE

\* pl.mu.Lock() goes through only when the mutex is unlocked.
MuFree(m) == m = FALSE

LockCall(t, p) ==
    /\ Call(t, "lock_mu", p)
    /\ UNCHANGED <<regVars, ucVars>>
    /\ UNCHANGED obsVars

LockAcquire(t) ==
    /\ pc[t] = "lock_mu"
    /\ MuFree(mu)
    /\ mu' = TRUE
    /\ Goto(t, "lock_test")
    /\ UNCHANGED <<locks, holders, ucVars>>
    /\ UNCHANGED obsVars

\* Faulty variant: the test is skipped for a thread that already holds the name.
LockTestReentrant(t) ==
    /\ pc[t] = "lock_test"
    /\ IF MapGet(locks, arg[t]) /\ t \notin holders[arg[t]]
         THEN /\ mu' = FALSE
              /\ Return(t, "false")
              /\ UNCHANGED <<locks, holders>>
         ELSE /\ Goto(t, "lock_set")
              /\ UNCHANGED <<locks, mu, holders>>
    /\ UNCHANGED ucVars
    /\ UNCHANGED obsVars

\* Faulty variant: one flag for all names, refusing when any name is held.
LockTestAnyName(t) ==
    /\ pc[t] = "lock_test"
    /\ IF \E n \in DOMAIN locks : locks[n]
         THEN /\ mu' = FALSE
              /\ Return(t, "false")
              /\ UNCHANGED <<locks, holders>>
         ELSE /\ Goto(t, "lock_set")
              /\ UNCHANGED <<locks, mu, holders>>
    /\ UNCHANGED ucVars
    /\ UNCHANGED obsVars

\* if pl.locks[profile] { return false }, the deferred pl.mu.Unlock() running at the return
LockTest(t) ==
    /\ pc[t] = "lock_test"
    /\ IF MapGet(locks, arg[t])
         THEN /\ mu' = FALSE
              /\ Return(t, "false")
              /\ UNCHANGED <<locks, holders>>
         ELSE /\ Goto(t, "lock_set")
              /\ UNCHANGED <<locks, mu, holders>>
    /\ UNCHANGED ucVars
    /\ UNCHANGED obsVars

\* pl.locks[profile] = true; return true
LockSet(t) ==
    /\ pc[t] = "lock_set"
    /\ locks' = MapSet(locks, arg[t], TRUE)
    /\ holders' = [holders EXCEPT ![arg[t]] = @ \cup {t}]
    /\ mu' = FALSE
    /\ Return(t, "true")
    /\ UNCHANGED ucVars
    /\ UNCHANGED obsVars

UnlockCall(t, p) ==
    /\ Call(t, "unlock_mu", p)
    /\ UNCHANGED <<regVars, ucVars>>
    /\ UNCHANGED obsVars

UnlockAcquire(t) ==
    /\ pc[t] = "unlock_mu"
    /\ MuFree(mu)
    /\ mu' = TRUE
    /\ Goto(t, "unlock_delete")
    /\ UNCHANGED <<locks, holders, ucVars>>
    /\ UNCHANGED obsVars

\* Faulty variant: only the caller whose Lock was granted can release the name.
UnlockDeleteByHolder(t) ==
    /\ pc[t] = "unlock_delete"
    /\ locks' = IF t \in holders[arg[t]] THEN MapDelete(locks, arg[t]) ELSE locks
    /\ holders' = IF t \in holders[arg[t]] THEN [holders EXCEPT ![arg[t]] = {}] ELSE holders
    /\ mu' = FALSE
    /\ Return(t, "void")
    /\ UNCHANGED ucVars
    /\ UNCHANGED obsVars

\* delete(pl.locks, profile)
UnlockDelete(t) ==
    /\ pc[t] = "unlock_delete"
    /\ locks' = MapDelete(locks, arg[t])
    /\ holders' = [holders EXCEPT ![arg[t]] = {}]
    /\ mu' = FALSE
    /\ Return(t, "void")
    /\ UNCHANGED ucVars
    /\ UNCHANGED obsVars

IsLockedCall(t, p) ==
    /\ Call(t, "islocked_mu", p)
    /\ UNCHANGED <<regVars, ucVars>>
    /\ UNCHANGED obsVars

IsLockedAcquire(t) ==
    /\ pc[t] = "islocked_mu"
    /\ MuFree(mu)
    /\ mu' = TRUE
    /\ Goto(t, "islocked_read")
    /\ UNCHANGED <<locks, holders, ucVars>>
    /\ UNCHANGED obsVars

\* return pl.locks[profile]
IsLockedRead(t) ==
    /\ pc[t] = "islocked_read"
    /\ mu' = FALSE
    /\ Return(t, IF MapGet(locks, arg[t]) THEN "true" ELSE "false")
    /\ UNCHANGED <<locks, holders, ucVars>>
    /\ UNCHANGED obsVars

RegistryCall(t) ==
    \E p \in ProfileNames : LockCall(t, p) \/ UnlockCall(t, p) \/ IsLockedCall(t, p)

RegistryStep(t) ==
    \/ LockAcquire(t)
    \/ LockTest(t)
    \/ LockSet(t)
    \/ UnlockAcquire(t)
    \/ UnlockDelete(t)
    \/ IsLockedAcquire(t)
    \/ IsLockedRead(t)

-----------------------------------------------------------------------------
(* The state directories of a profile and ColimaRepository's existence     *)
(* check, which stats <home>/.colima/<profile>.                            *)

\* Faulty variant: every profile is taken to exist.
checkProfileExistsAlways(p) == TRUE

checkProfileExists(p) == p \in dirs

\* The profile name an operation works on when the caller omitted it.
\* Faulty variant: the name is used as it was given.
DefaultProfileKeep(p) == p

DefaultProfile(p) == IF p = "" THEN DefaultColimaConfig.Profile ELSE p

-----------------------------------------------------------------------------
(* ColimaRepository.CheckDependencies and UpdateDependencies as functions  *)
(* of the outcomes of the commands they run.  lima is the outcome of       *)
(* "brew list --versions lima": "fail", "short" (fewer than two fields)    *)
(* or "ok".                                                                *)

LimaOutcomes == {"fail", "short", "ok"}

\* Faulty variant: the checks go on after Homebrew was not found.
CheckDependenciesRunOn(brew, which, version, lima) ==
    [err |-> IF brew THEN "none" ELSE "DependencyError",
     dep |-> IF brew THEN "" ELSE "homebrew",
     reason |-> IF brew THEN <<>> ELSE <<"not installed or not in PATH">>,
     status |-> [Homebrew |-> brew, Colima |-> which, Lima |-> (lima = "ok")],
     calls |-> <<Cmd("brew --prefix", brew), Cmd("which colima", which)>>
               \o (IF which THEN <<Cmd("colima version", version)>> ELSE <<>>)
               \o <<[cmd |-> "brew list --versions lima", exit |-> lima]>>]

\* Faulty variant: Lima is not looked for once Colima was not found.
CheckDependenciesRunShort(brew, which, version, lima) ==
    IF ~brew
      THEN [err |-> "DependencyError", dep |-> "homebrew",
            reason |-> <<"not installed or not in PATH">>,
            status |-> [Homebrew |-> FALSE, Colima |-> FALSE, Lima |-> FALSE],
            calls |-> <<Cmd("brew --prefix", FALSE)>>]
      ELSE IF ~which
        THEN [err |-> "none", dep |-> "", reason |-> <<>>,
              status |-> [Homebrew |-> TRUE, Colima |-> FALSE, Lima |-> FALSE],
              calls |-> <<Cmd("brew --prefix", TRUE), Cmd("which colima", FALSE)>>]
        ELSE [err |-> "none", dep |-> "", reason |-> <<>>,
              status |-> [Homebrew |-> TRUE, Colima |-> TRUE, Lima |-> (lima = "ok")],
              calls |-> <<Cmd("brew --prefix", TRUE), Cmd("which colima", TRUE),
                          Cmd("colima version", version),
                          [cmd |-> "brew list --versions lima", exit |-> lima]>>]

CheckDependenciesRun(brew, which, version, lima) ==
    IF ~brew
      THEN [err |-> "DependencyError", dep |-> "homebrew",
            reason |-> <<"not installed or not in PATH">>,
            status |-> [Homebrew |-> FALSE, Colima |-> FALSE, Lima |-> FALSE],
            calls |-> <<Cmd("brew --prefix", FALSE)>>]
      ELSE [err |-> "none", dep |-> "", reason |-> <<>>,
            status |-> [Homebrew |-> TRUE, Colima |-> which, Lima |-> (lima = "ok")],
            calls |-> <<Cmd("brew --prefix", TRUE), Cmd("which colima", which)>>
                      \o (IF which THEN <<Cmd("colima version", version)>> ELSE <<>>)
                      \o <<[cmd |-> "brew list --versions lima", exit |-> lima]>>]

\* Faulty variant: the upgrade is run although the update failed.
UpdateDependenciesRunOn(update, upgrade) ==
    IF ~upgrade
      THEN [err |-> "DependencyError", dep |-> "colima/lima",
            reason |-> <<"failed to upgrade">>,
            calls |-> <<Cmd("brew update", update), Cmd("brew upgrade colima lima", FALSE)>>]
      ELSE [err |-> IF update THEN "none" ELSE "DependencyError",
            dep |-> IF update THEN "" ELSE "homebrew",
            reason |-> IF update THEN <<>> ELSE <<"failed to update">>,
            calls |-> <<Cmd("brew update", update), Cmd("brew upgrade colima lima", TRUE)>>]

UpdateDependenciesRun(update, upgrade) ==
    IF ~update
      THEN [err |-> "DependencyError", dep |-> "homebrew",
            reason |-> <<"failed to update">>, calls |-> <<Cmd("brew update", FALSE)>>]
      ELSE IF ~upgrade
        THEN [err |-> "DependencyError", dep |-> "colima/lima",
              reason |-> <<"failed to upgrade">>,
              calls |-> <<Cmd("brew update", TRUE), Cmd("brew upgrade colima lima", FALSE)>>]
        ELSE [err |-> "none", dep |-> "", reason |-> <<>>,
              calls |-> <<Cmd("brew update", TRUE), Cmd("brew upgrade colima lima", TRUE)>>]

DepsMissing(status) == ~status.Colima \/ ~status.Lima

\* Everything a run of CheckDependencies, and of UpdateDependencies, can come to.
CheckOutcomes ==
    {CheckDependenciesRun(brew, which, version, lima) :
        brew \in BOOLEAN, which \in BOOLEAN, version \in BOOLEAN, lima \in LimaOutcomes}

UpdateOutcomes ==
    {UpdateDependenciesRun(update, upgrade) : update \in BOOLEAN, upgrade \in BOOLEAN}

\* One outcome for each way a caller can go on after the check: Homebrew missing,
\* Colima missing, all present.  Where no record is kept these are all there is to tell apart.
CheckKinds == {CheckDependenciesRun(brew, which, TRUE, "ok") : brew \in BOOLEAN, which \in BOOLEAN}

\* Likewise for the update: it failed, or it went through.
UpdateKinds == {UpdateDependenciesRun(update, TRUE) : update \in BOOLEAN}

ChecksSeen == IF rec THEN CheckOutcomes ELSE CheckKinds

UpdatesSeen == IF rec THEN UpdateOutcomes ELSE UpdateKinds

-----------------------------------------------------------------------------
(* ColimaUseCase.Start                                                     *)

\* Faulty variant: a request without CPUs loses its profile name to the default.
MergeDefaultsProfileToo(c) ==
    [CPUs |-> IF c.CPUs = 0 THEN DefaultColimaConfig.CPUs ELSE c.CPUs,
     Memory |-> IF c.Memory = 0 THEN DefaultColimaConfig.Memory ELSE c.Memory,
     DiskSize |-> IF c.DiskSize = 0 THEN DefaultColimaConfig.DiskSize ELSE c.DiskSize,
     VMType |-> IF c.VMType = "" THEN DefaultColimaConfig.VMType ELSE c.VMType,
     Runtime |-> IF c.Runtime = "" THEN DefaultColimaConfig.Runtime ELSE c.Runtime,
     NetworkAddress |-> c.NetworkAddress,
     Kubernetes |-> c.Kubernetes,
     Profile |-> IF c.CPUs = 0 THEN DefaultColimaConfig.Profile ELSE c.Profile]

\* Faulty variant: the two flags are defaulted as well, so a false one becomes true.
MergeDefaultsFlagsToo(c) ==
    [CPUs |-> IF c.CPUs = 0 THEN DefaultColimaConfig.CPUs ELSE c.CPUs,
     Memory |-> IF c.Memory = 0 THEN DefaultColimaConfig.Memory ELSE c.Memory,
     DiskSize |-> IF c.DiskSize = 0 THEN DefaultColimaConfig.DiskSize ELSE c.DiskSize,
     VMType |-> IF c.VMType = "" THEN DefaultColimaConfig.VMType ELSE c.VMType,
     Runtime |-> IF c.Runtime = "" THEN DefaultColimaConfig.Runtime ELSE c.Runtime,
     NetworkAddress |-> IF ~c.NetworkAddress THEN DefaultColimaConfig.NetworkAddress
                        ELSE c.NetworkAddress,
     Kubernetes |-> IF ~c.Kubernetes THEN DefaultColimaConfig.Kubernetes ELSE c.Kubernetes,
     Profile |-> IF c.Profile = "" THEN DefaultColimaConfig.Profile ELSE c.Profile]

\* "Apply defaults if not set"
MergeDefaults(c) ==
    [CPUs |-> IF c.CPUs = 0 THEN DefaultColimaConfig.CPUs ELSE c.CPUs,
     Memory |-> IF c.Memory = 0 THEN DefaultColimaConfig.Memory ELSE c.Memory,
     DiskSize |-> IF c.DiskSize = 0 THEN DefaultColimaConfig.DiskSize ELSE c.DiskSize,
     VMType |-> IF c.VMType = "" THEN DefaultColimaConfig.VMType ELSE c.VMType,
     Runtime |-> IF c.Runtime = "" THEN DefaultColimaConfig.Runtime ELSE c.Runtime,
     NetworkAddress |-> c.NetworkAddress,
     Kubernetes |-> c.Kubernetes,
     Profile |-> IF c.Profile = "" THEN DefaultColimaConfig.Profile ELSE c.Profile]

StartReturn(t, r) ==
    /\ Return(t, r)
    /\ req' = [req EXCEPT ![t] = ZeroConfig]
    /\ cfg' = [cfg EXCEPT ![t] = ZeroConfig]

\* Start is entered: defaults are applied, then the first dependency check runs.
StartCall(t, c) ==
    /\ Call(t, "start_check1", MergeDefaults(c).Profile)
    /\ req' = [req EXCEPT ![t] = c]
    /\ cfg' = [cfg EXCEPT ![t] = MergeDefaults(c)]
    /\ UNCHANGED <<regVars, dirs>>
    /\ Begin(t, c.Profile, <<Op("Start"), Op("repo.CheckDependencies")>>)

\* uc.repo.CheckDependencies returns; "start_vm" is the colima start process running
\* Faulty variant: Start tries the update also when the first check returned an error.
StartCheck1Remediate(t) ==
    /\ pc[t] = "start_check1"
    /\ \E r \in ChecksSeen :
           /\ Goto(t, IF r.err # "none" \/ DepsMissing(r.status) THEN "start_update"
                                                                  ELSE "start_vm")
           /\ Observe(t, r.calls \o (IF r.err # "none" \/ DepsMissing(r.status)
                                        THEN <<Op("repo.UpdateDependencies")>>
                                        ELSE <<Op("repo.Start")>>), "", <<>>, {})
           /\ UNCHANGED <<req, cfg>>
    /\ UNCHANGED <<regVars, dirs>>

StartCheck1(t) ==
    /\ pc[t] = "start_check1"
    /\ \E r \in ChecksSeen :
           IF r.err # "none"
             THEN /\ StartReturn(t, r.err)
                  /\ Observe(t, r.calls, r.dep, r.reason, {})
             ELSE /\ Goto(t, IF DepsMissing(r.status) THEN "start_update" ELSE "start_vm")
                  /\ Observe(t, r.calls \o (IF DepsMissing(r.status)
                                               THEN <<Op("repo.UpdateDependencies")>>
                                               ELSE <<Op("repo.Start")>>), "", <<>>, {})
                  /\ UNCHANGED <<req, cfg>>
    /\ UNCHANGED <<regVars, dirs>>

\* uc.repo.UpdateDependencies returns
StartUpdate(t) ==
    /\ pc[t] = "start_update"
    /\ \E r \in UpdatesSeen :
           IF r.err # "none"
             THEN /\ StartReturn(t, r.err)
                  /\ Observe(t, r.calls, r.dep, r.reason, {})
             ELSE /\ Goto(t, "start_check2")
                  /\ Observe(t, r.calls \o <<Op("repo.CheckDependencies")>>, "", <<>>, {})
                  /\ UNCHANGED <<req, cfg>>
    /\ UNCHANGED <<regVars, dirs>>

\* Faulty variant: the update is tried again while something is still missing.
StartCheck2Again(t) ==
    /\ pc[t] = "start_check2"
    /\ \E r \in ChecksSeen :
           IF r.err # "none"
             THEN /\ StartReturn(t, r.err)
                  /\ Observe(t, r.calls, r.dep, r.reason, {})
             ELSE /\ Goto(t, IF DepsMissing(r.status) THEN "start_update" ELSE "start_vm")
                  /\ Observe(t, r.calls \o (IF DepsMissing(r.status)
                                               THEN <<Op("repo.UpdateDependencies")>>
                                               ELSE <<Op("repo.Start")>>), "", <<>>, {})
                  /\ UNCHANGED <<req, cfg>>
    /\ UNCHANGED <<regVars, dirs>>

\* "Check again after update"
StartCheck2(t) ==
    /\ pc[t] = "start_check2"
    /\ \E r \in ChecksSeen :
           IF r.err # "none"
             THEN /\ StartReturn(t, r.err)
                  /\ Observe(t, r.calls, r.dep, r.reason, {})
             ELSE IF DepsMissing(r.status)
               THEN /\ StartReturn(t, "DependencyError")
                    /\ Observe(t, r.calls, "colima/lima",
                               <<"failed to install required dependencies">>, {})
               ELSE /\ Goto(t, "start_vm")
                    /\ Observe(t, r.calls \o <<Op("repo.Start")>>, "", <<>>, {})
                    /\ UNCHANGED <<req, cfg>>
    /\ UNCHANGED <<regVars, dirs>>

\* ColimaRepository.Start: the arguments handed to colima
StartArgs(c) ==
    <<"start", "--cpu", c.CPUs, "--memory", c.Memory, "--disk", c.DiskSize,
      "--vm-type", c.VMType, "--runtime", c.Runtime>>
    \o (IF c.NetworkAddress THEN <<"--network-address">> ELSE <<>>)
    \o (IF c.Kubernetes THEN <<"--kubernetes">> ELSE <<>>)
    \o (IF c.Profile # "" /\ c.Profile # "default" THEN <<"-p", c.Profile>> ELSE <<>>)

\* Faulty variant: colima start is run again when it failed.
StartVMExitAgain(t) ==
    /\ pc[t] = "start_vm"
    /\ \E ok \in BOOLEAN, made \in SUBSET {arg[t]} :
         /\ ok => arg[t] \in made
         /\ dirs' = dirs \cup made
         /\ IF ok THEN StartReturn(t, "ok")
                  ELSE Goto(t, "start_vm") /\ UNCHANGED <<req, cfg>>
         /\ Observe(t, <<Cmd("colima start", ok)>>, "", <<>>, {})
    /\ UNCHANGED regVars

\* colima start exits: a started profile has its state directory
StartVMExit(t) ==
    /\ pc[t] = "start_vm"
    /\ \E ok \in BOOLEAN, made \in SUBSET {arg[t]} :
         /\ ok => arg[t] \in made
         /\ dirs' = dirs \cup made
         /\ StartReturn(t, IF ok THEN "ok" ELSE "ExecError")
         /\ Observe(t, <<Cmd("colima start", ok)>>, "", <<>>, {})
    /\ UNCHANGED regVars

-----------------------------------------------------------------------------
(* ColimaUseCase.Stop over ColimaRepository.Stop                           *)

StopCall(t, p) ==
    /\ IF checkProfileExists(DefaultProfile(p))
         THEN Call(t, "stop_vm", DefaultProfile(p))
         ELSE CallReturn(t, "ProfileNotFound", DefaultProfile(p))
    /\ Begin(t, p, <<Op("Stop"), Op("repo.Stop")>>)
    /\ UNCHANGED <<regVars, ucVars>>

\* colima stop exits
StopVMExit(t) ==
    /\ pc[t] = "stop_vm"
    /\ \E ok \in BOOLEAN :
         /\ Return(t, IF ok THEN "ok" ELSE "ExecError")
         /\ Observe(t, <<Cmd("colima stop", ok)>>, "", <<>>, {})
    /\ UNCHANGED <<regVars, ucVars>>

-----------------------------------------------------------------------------------------------------------------------------------------------------
(* ColimaUseCase.Status over ColimaRepository.Status.  The output of the   *)
(* probe is a sequence of lines.                                           *)

ProbeLines ==
    {"colima is running", "colima is not running", "connection refused",
     "cannot connect", "colima is not running: connection refused", "fatal",
     "running", "CPU: 4", "Memory: 8", "Disk: 60", "max CPU: 2", "kubernetes"}

MaxLines == 1

\* The output "running\nCPU: 4\nMemory: 8\nDisk: 60\n", split at the newlines.
HealthyOutput == <<"running", "CPU: 4", "Memory: 8", "Disk: 60", "">>

ProbeOutputs == UNION {[1..n -> ProbeLines] : n \in 0..MaxLines} \cup {HealthyOutput}

\* strings.Contains(line, s), for the texts looked for
LineContains(line, s) ==
    \/ line = s
    \/ line = "colima is running" /\ s = "running"
    \/ line = "colima is not running" /\ s \in {"running", "is not running"}
    \/ line = "colima is not running: connection refused"
         /\ s \in {"running", "is not running", "connection refused"}
    \/ line \in {"CPU: 4", "max CPU: 2"} /\ s = "CPU:"
    \/ line = "Memory: 8" /\ s = "Memory:"
    \/ line = "Disk: 60" /\ s = "Disk:"

\* fmt.Sscanf(line, format, &field): the number scanned, if the line fits the format
Sscanf(line, format) ==
    IF line = "CPU: 4" /\ format = "CPU: %d" THEN {4}
    ELSE IF line = "Memory: 8" /\ format = "Memory: %d" THEN {8}
    ELSE IF line = "Disk: 60" /\ format = "Disk: %d" THEN {60}
    ELSE {}

\* What Sscanf leaves in a field that held old.
Scanned(line, format, old) ==
    IF Sscanf(line, format) = {} THEN old ELSE CHOOSE n \in Sscanf(line, format) : TRUE

\* Faulty variant: any line that names a field marks Kubernetes as well.
ParseLineLoose(st, line) ==
    [Profile |-> st.Profile,
     Status |-> IF LineContains(line, "running") THEN "running" ELSE st.Status,
     CPUs |-> IF LineContains(line, "CPU:") THEN Scanned(line, "CPU: %d", st.CPUs)
              ELSE st.CPUs,
     Memory |-> IF LineContains(line, "Memory:") THEN Scanned(line, "Memory: %d", st.Memory)
                ELSE st.Memory,
     DiskSize |-> IF LineContains(line, "Disk:") THEN Scanned(line, "Disk: %d", st.DiskSize)
                  ELSE st.DiskSize,
     Kubernetes |-> IF LineContains(line, "kubernetes") \/ LineContains(line, "CPU:")
                    THEN TRUE ELSE st.Kubernetes]

\* The body of "for _, line := range lines"
ParseLine(st, line) ==
    [Profile |-> st.Profile,
     Status |-> IF LineContains(line, "running") THEN "running" ELSE st.Status,
     CPUs |-> IF LineContains(line, "CPU:") THEN Scanned(line, "CPU: %d", st.CPUs)
              ELSE st.CPUs,
     Memory |-> IF LineContains(line, "Memory:") THEN Scanned(line, "Memory: %d", st.Memory)
                ELSE st.Memory,
     DiskSize |-> IF LineContains(line, "Disk:") THEN Scanned(line, "Disk: %d", st.DiskSize)
                  ELSE st.DiskSize,
     Kubernetes |-> IF LineContains(line, "kubernetes") THEN TRUE ELSE st.Kubernetes]

RECURSIVE ParseLines(_, _, _)
ParseLines(st, out, i) ==
    IF i > Len(out) THEN st ELSE ParseLines(ParseLine(st, out[i]), out, i + 1)

\* Faulty variant: the status does not carry the profile asked about.
NewStatusUnnamed(profile) ==
    [Profile |-> "", Status |-> "", CPUs |-> 0, Memory |-> 0, DiskSize |-> 0,
     Kubernetes |-> FALSE]

\* status := &domain.ColimaStatus{Profile: profile}
NewStatus(profile) ==
    [Profile |-> profile, Status |-> "", CPUs |-> 0, Memory |-> 0, DiskSize |-> 0,
     Kubernetes |-> FALSE]

\* strings.Contains(outputStr, s)
Contains(out, s) == \E i \in DOMAIN out : LineContains(out[i], s)

\* Faulty variant: the connection texts are looked for first.
StatusFaultConnectionFirst(out) ==
    IF Contains(out, "connection refused") \/ Contains(out, "cannot connect")
      THEN [err |-> "ProfileUnreachable", reason |-> <<"connection to VM failed">>]
    ELSE IF Contains(out, "is not running")
      THEN [err |-> "ProfileNotStarted", reason |-> <<>>]
      ELSE [err |-> "ProfileMalfunction", reason |-> out]

\* if err != nil: the fault the output is classified as
StatusFault(out) ==
    IF Contains(out, "is not running")
      THEN [err |-> "ProfileNotStarted", reason |-> <<>>]
    ELSE IF Contains(out, "connection refused") \/ Contains(out, "cannot connect")
      THEN [err |-> "ProfileUnreachable", reason |-> <<"connection to VM failed">>]
      ELSE [err |-> "ProfileMalfunction", reason |-> out]

\* ColimaRepository.Status once the probe has exited with output out
StatusRun(exitOk, out, profile) ==
    IF ~exitOk
      THEN [err |-> StatusFault(out).err, reason |-> StatusFault(out).reason,
            out |-> out, snap |-> {}]
      ELSE [err |-> "ok", reason |-> <<>>, out |-> out,
            snap |-> {ParseLines(NewStatus(profile), out, 1)}]

\* What Status can return once the probe has run.
StatusErrs == {StatusRun(exitOk, out, "").err : exitOk \in BOOLEAN, out \in ProbeOutputs}

\* Faulty variant: Status refused while the lock for the profile is held.
StatusCallLocked(t, p) ==
    /\ IF MapGet(locks, DefaultProfile(p))
         THEN CallReturn(t, "ProfileBusy", DefaultProfile(p))
         ELSE IF checkProfileExists(DefaultProfile(p))
           THEN Call(t, "status_probe", DefaultProfile(p))
           ELSE CallReturn(t, "ProfileNotFound", DefaultProfile(p))
    /\ Begin(t, p, <<Op("Status"), Op("repo.Status")>>)
    /\ UNCHANGED <<regVars, ucVars>>

\* Faulty variant: after a Status that succeeded, the next Status answers without a probe.
StatusCallCached(t, p) ==
    /\ IF checkProfileExists(DefaultProfile(p))
         THEN IF obs[t].cmds # <<>> /\ obs[t].cmds[1] = Op("Status") /\ ret[t] = "ok"
                THEN CallReturn(t, "ok", DefaultProfile(p))
                ELSE Call(t, "status_probe", DefaultProfile(p))
         ELSE CallReturn(t, "ProfileNotFound", DefaultProfile(p))
    /\ Begin(t, p, <<Op("Status"), Op("repo.Status")>>)
    /\ UNCHANGED <<regVars, ucVars>>

StatusCall(t, p) ==
    /\ IF checkProfileExists(DefaultProfile(p))
         THEN Call(t, "status_probe", DefaultProfile(p))
         ELSE CallReturn(t, "ProfileNotFound", DefaultProfile(p))
    /\ Begin(t, p, <<Op("Status"), Op("repo.Status")>>)
    /\ UNCHANGED <<regVars, ucVars>>

\* colima status -e exits
StatusProbeExit(t) ==
    /\ pc[t] = "status_probe"
    /\ IF rec
         THEN \E exitOk \in BOOLEAN, out \in ProbeOutputs :
                 /\ Return(t, StatusRun(exitOk, out, arg[t]).err)
                 /\ ObserveProbe(t, exitOk, out, StatusRun(exitOk, out, arg[t]).reason,
                                 StatusRun(exitOk, out, arg[t]).snap)
         ELSE \E r \in StatusErrs :
                 /\ Return(t, r)
                 /\ UNCHANGED obsVars
    /\ UNCHANGED <<regVars, ucVars>>

-----
(* ColimaUseCase.GetKubeConfig over ColimaRepository.GetKubeConfig         *)

GetKubeConfigCall(t, p) ==
    /\ IF checkProfileExists(DefaultProfile(p))
         THEN Call(t, "kube_read", DefaultProfile(p))
         ELSE CallReturn(t, "ProfileNotFound", DefaultProfile(p))
    /\ UNCHANGED <<regVars, ucVars>>
    /\ Begin(t, p, <<Op("GetKubeConfig"), Op("repo.GetKubeConfig")>>)

\* os.ReadFile of the kubeconfig returns
GetKubeConfigRead(t) ==
    /\ pc[t] = "kube_read"
    /\ \E ok \in BOOLEAN :
         /\ Return(t, IF ok THEN "ok" ELSE "ExecError")
         /\ Observe(t, <<Cmd("read kubeconfig", ok)>>, "", <<>>, {})
    /\ UNCHANGED <<regVars, ucVars>>

-----------------------------------------------------------------------------
(* ColimaUseCase.Clean over ColimaRepository.Clean; the empty name cleans  *)
(* every profile.                                                          *)

\* Faulty variant: Clean refused while the lock for the profile is held.
CleanCallLocked(t, p) ==
    /\ IF MapGet(locks, p)
         THEN CallReturn(t, "ProfileBusy", p)
         ELSE IF p = "" \/ checkProfileExists(p)
           THEN Call(t, "clean_stop", p)
           ELSE CallReturn(t, "ProfileNotFound", p)
    /\ Begin(t, p, <<Op("Clean"), Op("repo.Clean")>>)
    /\ UNCHANGED <<regVars, ucVars>>

\* Faulty variant: Clean of one profile goes ahead without looking for its directory.
CleanCallNoCheck(t, p) ==
    /\ Call(t, "clean_stop", p)
    /\ Begin(t, p, <<Op("Clean"), Op("repo.Clean")>>)
    /\ UNCHANGED <<regVars, ucVars>>

\* Faulty variant: Clean puts the default profile in place of the empty name.
CleanCallDefaulted(t, p) ==
    /\ IF checkProfileExists(DefaultProfile(p))
         THEN Call(t, "clean_stop", DefaultProfile(p))
         ELSE CallReturn(t, "ProfileNotFound", DefaultProfile(p))
    /\ Begin(t, p, <<Op("Clean"), Op("repo.Clean")>>)
    /\ UNCHANGED <<regVars, ucVars>>

CleanCall(t, p) ==
    /\ IF p = "" \/ checkProfileExists(p)
         THEN Call(t, "clean_stop", p)
         ELSE CallReturn(t, "ProfileNotFound", p)
    /\ Begin(t, p, <<Op("Clean"), Op("repo.Clean")>>)
    /\ UNCHANGED <<regVars, ucVars>>

\* Faulty variant: a failed colima stop ends Clean.
CleanStopExitFatal(t) ==
    /\ pc[t] = "clean_stop"
    /\ \E ok \in BOOLEAN :
         /\ IF ok THEN Goto(t, "clean_delete") ELSE Return(t, "ExecError")
         /\ Observe(t, <<Cmd("colima stop", ok)>>, "", <<>>, {})
    /\ UNCHANGED <<regVars, ucVars>>

\* colima stop exits; its failure is only logged
CleanStopExit(t) ==
    /\ pc[t] = "clean_stop"
    /\ \E ok \in BOOLEAN :
         /\ Goto(t, "clean_delete")
         /\ Observe(t, <<Cmd("colima stop", ok)>>, "", <<>>, {})
    /\ UNCHANGED <<regVars, ucVars>>

\* colima delete -f exits
CleanDeleteExit(t) ==
    /\ pc[t] = "clean_delete"
    /\ \E ok \in BOOLEAN :
         /\ IF ok THEN Goto(t, "clean_rm_colima") ELSE Return(t, "ExecError")
         /\ Observe(t, <<Cmd("colima delete", ok)>>, "", <<>>, {})
    /\ UNCHANGED <<regVars, ucVars>>

\* What os.RemoveAll of <home>/.colima/<profile> (of <home>/.colima, for every profile) leaves
\* Faulty variant: the removal reports success and leaves the directories.
RemoveAllNothing(d, p) == d

RemoveAll(d, p) == IF p = "" THEN {} ELSE d \ {p}

CleanRemoveColima(t) ==
    /\ pc[t] = "clean_rm_colima"
    /\ \E ok \in BOOLEAN :
         /\ IF ok THEN /\ dirs' = RemoveAll(dirs, arg[t])
                       /\ Goto(t, "clean_rm_lima")
                  ELSE /\ dirs' = dirs
                       /\ Return(t, "ExecError")
         /\ Observe(t, <<Cmd("remove .colima", ok)>>, "", <<>>, {})
    /\ UNCHANGED <<regVars, req, cfg>>

\* os.RemoveAll of <home>/.lima/<profile> (of <home>/.lima), which no operation reads
CleanRemoveLima(t) ==
    /\ pc[t] = "clean_rm_lima"
    /\ \E ok \in BOOLEAN :
         /\ Return(t, IF ok THEN "ok" ELSE "ExecError")
         /\ Observe(t, <<Cmd("remove .lima", ok)>>, "", <<>>, {})
    /\ UNCHANGED <<regVars, ucVars>>

-----------------------------------------------------------------------------
(* ColimaUseCase.CheckDependencies and UpdateDependencies                  *)

CheckDependenciesCall(t) ==
    /\ Call(t, "deps_check", "")
    /\ Begin(t, "", <<Op("CheckDependencies"), Op("repo.CheckDependencies")>>)
    /\ UNCHANGED <<regVars, ucVars>>

CheckDependenciesExit(t) ==
    /\ pc[t] = "deps_check"
    /\ \E r \in ChecksSeen :
           /\ Return(t, IF r.err # "none" THEN r.err ELSE "ok")
           /\ Observe(t, r.calls, r.dep, r.reason,
                      IF r.err # "none" THEN {} ELSE {r.status})
    /\ UNCHANGED <<regVars, ucVars>>

UpdateDependenciesCall(t) ==
    /\ Call(t, "deps_update", "")
    /\ Begin(t, "", <<Op("UpdateDependencies"), Op("repo.UpdateDependencies")>>)
    /\ UNCHANGED <<regVars, ucVars>>

UpdateDependenciesExit(t) ==
    /\ pc[t] = "deps_update"
    /\ \E r \in UpdatesSeen :
           /\ Return(t, IF r.err # "none" THEN r.err ELSE "ok")
           /\ Observe(t, r.calls, r.dep, r.reason, {})
    /\ UNCHANGED <<regVars, ucVars>>

-----------------------------------------------------------------------------
(* The calls of the use-case layer and the steps that finish them.         *)

\* The profile names a caller passes: a name or the omitted name.
ArgNames == ProfileNames \cup {""}

\* The configs concurrent Start calls are given: nothing set but the profile.
NamedConfigs == {[ZeroConfig EXCEPT !.Profile = p] : p \in ArgNames}

UseCaseCall(t) ==
    \/ \E c \in NamedConfigs : StartCall(t, c)
    \/ \E p \in ArgNames : StopCall(t, p)
    \/ \E p \in ArgNames : StatusCall(t, p)
    \/ \E p \in ArgNames : GetKubeConfigCall(t, p)
    \/ \E p \in ArgNames : CleanCall(t, p)
    \/ CheckDependenciesCall(t)
    \/ UpdateDependenciesCall(t)

UseCaseStep(t) ==
    \/ StartCheck1(t)
    \/ StartUpdate(t)
    \/ StartCheck2(t)
    \/ StartVMExit(t)
    \/ StopVMExit(t)
    \/ StatusProbeExit(t)
    \/ GetKubeConfigRead(t)
    \/ CleanStopExit(t)
    \/ CleanDeleteExit(t)
    \/ CleanRemoveColima(t)
    \/ CleanRemoveLima(t)
    \/ CheckDependenciesExit(t)
    \/ UpdateDependenciesExit(t)

-----------------------------------------------------------------------------
-----------------------------------------------------------------------------
(* The HTTP handlers: each calls its use-case method and, on an error,      *)
(* answers with handleError.  The use case is an interface to the handler,  *)
(* so any error may come back from it.                                      *)

NoErr == [type |-> "nil", Profile |-> "", Dependency |-> "", Reason |-> "", Operation |-> ""]

Err(type, profile, dep, reason) ==
    [type |-> type, Profile |-> profile, Dependency |-> dep, Reason |-> reason, Operation |-> ""]

Reasons == {"connection to VM failed", "not installed"}

\* The errors a use-case method may hand to a handler; "error" is an error of no domain type.
UseCaseErrors ==
    {Err(ty, p, "", "") : ty \in {"ProfileNotFound", "ProfileNotStarted", "ProfileBusy"},
                         p \in ProfileNames}
    \cup {Err(ty, p, "", r) : ty \in {"ProfileUnreachable", "ProfileMalfunction"},
                            p \in ProfileNames, r \in Reasons}
    \cup {Err("DependencyError", "", d, r) : d \in {"homebrew", "colima", "lima"}, r \in Reasons}
    \cup {[Err("DockerContextError", p, "", "not installed") EXCEPT !.Operation = "switch"] :
             p \in ProfileNames}
    \cup {Err("error", "", "", "exit status 1")}

\* e.Error()
Error(e) ==
    IF e.type = "ProfileNotFound" THEN "profile '" \o e.Profile \o "' does not exist"
    ELSE IF e.type = "ProfileNotStarted" THEN "profile '" \o e.Profile \o "' is not started"
    ELSE IF e.type = "ProfileUnreachable"
      THEN "profile '" \o e.Profile \o "' is unreachable: " \o e.Reason
    ELSE IF e.type = "ProfileMalfunction"
      THEN "profile '" \o e.Profile \o "' is malfunctioning: " \o e.Reason
    ELSE IF e.type = "ProfileBusy"
      THEN "profile '" \o e.Profile \o "' is currently busy with another operation"
    ELSE IF e.type = "DependencyError" THEN e.Dependency \o " dependency error: " \o e.Reason
    ELSE IF e.type = "DockerContextError"
      THEN "docker context " \o e.Operation \o " failed for profile '" \o e.Profile
             \o "': " \o e.Reason
    ELSE e.Reason

\* c.JSON(status, map[string]string{"error": error, "code": code}); code "" when there is none
JSON(status, error, code) == [status |-> status, error |-> error, code |-> code]

\* Faulty variant: a busy profile is answered like an unknown error.
handleErrorBusyUnknown(e) ==
    IF e.type = "ProfileNotFound" THEN JSON(404, Error(e), "")
    ELSE IF e.type = "ProfileNotStarted" THEN JSON(400, Error(e), "")
    ELSE IF e.type = "ProfileUnreachable" THEN JSON(503, Error(e), "")
    ELSE IF e.type = "ProfileMalfunction" THEN JSON(500, Error(e), "")
    ELSE IF e.type = "DependencyError" THEN JSON(500, Error(e), "")
    ELSE IF e.type = "DockerContextError" THEN JSON(500, Error(e), "")
    ELSE JSON(500, "Internal server error", "")

\* ColimaHandler.handleError
handleError(e) ==
    IF e.type = "ProfileNotFound" THEN JSON(404, Error(e), "")
    ELSE IF e.type = "ProfileNotStarted" THEN JSON(400, Error(e), "")
    ELSE IF e.type = "ProfileUnreachable" THEN JSON(503, Error(e), "")
    ELSE IF e.type = "ProfileMalfunction" THEN JSON(500, Error(e), "")
    ELSE IF e.type = "ProfileBusy" THEN JSON(503, Error(e), "profile_busy")
    ELSE IF e.type = "DependencyError" THEN JSON(500, Error(e), "")
    ELSE IF e.type = "DockerContextError" THEN JSON(500, Error(e), "")
    ELSE JSON(500, "Internal server error", "")

NoResp == JSON(0, "", "")

NoHttp == [op |-> "", bound |-> TRUE, err |-> NoErr, resp |-> NoResp]

Handlers ==
    {"CheckDependencies", "UpdateDependencies", "Start", "Stop", "Status", "GetKubeConfig",
     "Clean"}

\* A request reaches a handler, which binds the body (Start, Clean) and calls the use case.
HandlerCall ==
    /\ http.op = ""
    /\ \E op \in Handlers, e \in UseCaseErrors \cup {NoErr} :
         \E bound \in IF op \in {"Start", "Clean"} THEN BOOLEAN ELSE {TRUE} :
            http' = [op |-> op, bound |-> bound, err |-> IF bound THEN e ELSE NoErr,
                     resp |-> NoResp]
    /\ UNCHANGED <<regVars, ucVars, pc, arg, ret, calls, boot, colimaCfg, obsVars>>

\* The handler answers.
HandlerRespond ==
    /\ http.op # ""
    /\ http.resp = NoResp
    /\ http' = [http EXCEPT !.resp =
                  IF ~http.bound THEN JSON(400, "Invalid request body", "")
                  ELSE IF http.err = NoErr THEN JSON(200, "", "")
                  ELSE handleError(http.err)]
    /\ UNCHANGED <<regVars, ucVars, pc, arg, ret, calls, boot, colimaCfg, obsVars>>

\* The response is sent and the next request can come.
HandlerDone ==
    /\ http.resp # NoResp
    /\ http' = NoHttp
    /\ UNCHANGED <<regVars, ucVars, pc, arg, ret, calls, boot, colimaCfg, obsVars>>

Init ==
    /\ locks = EmptyMap
    /\ mu = FALSE
    /\ holders = [n \in ProfileNames |-> {}]
    /\ dirs \in SUBSET ProfileNames
    /\ pc = [t \in Threads |-> "idle"]
    /\ arg = [t \in Threads |-> ""]
    /\ req = [t \in Threads |-> ZeroConfig]
    /\ cfg = [t \in Threads |-> ZeroConfig]
    /\ ret = [t \in Threads |-> "none"]
    /\ calls = 0
    /\ obs = [t \in Threads |-> NoObs]
    /\ rec = FALSE
    /\ boot = "off"
    /\ colimaCfg = ZeroConfig
    /\ http = NoHttp

\* The handlers over any use case.
NextHttp == HandlerCall \/ HandlerRespond \/ HandlerDone

SpecHttp == Init /\ [][NextHttp]_vars

\* The registry alone, used by any number of callers.
NextLock == \E t \in Threads : RegistryCall(t) \/ RegistryStep(t)

SpecLock == Init /\ [][NextLock]_vars

\* The program: goroutines calling the use-case layer and the registry.
Next ==
    \E t \in Threads :
        RegistryCall(t) \/ RegistryStep(t) \/ UseCaseCall(t) \/ UseCaseStep(t)

Spec == Init /\ [][Next]_vars

\* The program as it runs: nothing but the use-case layer is called.
NextUseCase == \E t \in Threads : UseCaseCall(t) \/ UseCaseStep(t)

SpecUseCase == Init /\ [][NextUseCase]_vars

\* The goroutine scheduler runs every runnable goroutine, and sync.Mutex
\* hands the mutex to a goroutine that keeps waiting for it.
FairLock ==
    \A t \in Threads :
        /\ WF_vars(LockTest(t) \/ LockSet(t) \/ UnlockDelete(t) \/ IsLockedRead(t))
        /\ SF_vars(LockAcquire(t) \/ UnlockAcquire(t) \/ IsLockedAcquire(t))

FairSpecLock == SpecLock /\ FairLock

-----------------------------------------------------------------------------
(* Start called with any config, one call at a time.                       *)

ConfigInts == {-1, 0, 4}
ConfigStrings == {"", "qemu"}

AllConfigs ==
    [CPUs : ConfigInts, Memory : ConfigInts, DiskSize : ConfigInts,
     VMType : ConfigStrings, Runtime : ConfigStrings,
     NetworkAddress : BOOLEAN, Kubernetes : BOOLEAN, Profile : ArgNames]

NextConfig ==
    \/ \E c \in AllConfigs : StartCall(1, c)
    \/ StartCheck1(1)
    \/ StartUpdate(1)
    \/ StartCheck2(1)
    \/ StartVMExit(1)

SpecConfig == Init /\ [][NextConfig]_vars

-----------------------------------------------------------------------------
(* One caller making one call after another, a record being kept of what   *)
(* each call does.                                                         *)

InitSeq ==
    /\ locks = EmptyMap
    /\ mu = FALSE
    /\ holders = [n \in ProfileNames |-> {}]
    /\ dirs \in SUBSET ProfileNames
    /\ pc = [t \in Threads |-> "idle"]
    /\ arg = [t \in Threads |-> ""]
    /\ req = [t \in Threads |-> ZeroConfig]
    /\ cfg = [t \in Threads |-> ZeroConfig]
    /\ ret = [t \in Threads |-> "none"]
    /\ calls = 0
    /\ obs = [t \in Threads |-> NoObs]
    /\ rec = TRUE
    /\ boot = "off"
    /\ colimaCfg = ZeroConfig
    /\ http = NoHttp

NextSeq == UseCaseCall(1) \/ UseCaseStep(1)

SpecSeq == InitSeq /\ [][NextSeq]_vars

-----------------------------------------------------------------------------
(* main with the auto flag set: it starts the default profile and waits for *)
(* it to be ready, before the HTTP server is started.                       *)

\* colimaCfg, when the configuration file has no entry for the profile
BootConfig(p) ==
    [CPUs |-> 4, Memory |-> 8, DiskSize |-> 60, VMType |-> "vz", Runtime |-> "containerd",
     NetworkAddress |-> TRUE, Kubernetes |-> TRUE, Profile |-> p]

\* useCase.Start(context.Background(), colimaCfg)
BootStart ==
    /\ boot = "start"
    /\ StartCall(1, colimaCfg)

\* Start has returned: log.Fatal on an error, else the wait begins.
BootStarted ==
    /\ boot = "starting"
    /\ pc[1] = "idle"
    /\ boot' = IF ret[1] = "ok" THEN "poll" ELSE "fatal"
    /\ UNCHANGED <<regVars, ucVars, pc, arg, ret, calls, colimaCfg, http, obsVars>>

\* useCase.Status(context.Background(), defaultProfile)
BootPoll ==
    /\ boot = "poll"
    /\ StatusCall(1, colimaCfg.Profile)

\* Faulty variant: an error of Status ends the process.
BootPolledAbort ==
    /\ boot = "polling"
    /\ pc[1] = "idle"
    /\ boot' = IF ret[1] # "ok" THEN "fatal"
               ELSE IF \E st \in obs[1].snap : st.Status = "Running" THEN "next" ELSE "sleep"
    /\ UNCHANGED <<regVars, ucVars, pc, arg, ret, calls, colimaCfg, http, obsVars>>

\* Status has returned: on an error, or on a status other than "Running", main sleeps;
\* on "Running" it leaves the loop.
BootPolled ==
    /\ boot = "polling"
    /\ pc[1] = "idle"
    /\ boot' = IF ret[1] # "ok" THEN "sleep"
               ELSE IF \E st \in obs[1].snap : st.Status = "Running" THEN "next" ELSE "sleep"
    /\ UNCHANGED <<regVars, ucVars, pc, arg, ret, calls, colimaCfg, http, obsVars>>

\* time.Sleep(2 * time.Second) returns
BootWake ==
    /\ boot = "sleep"
    /\ boot' = "poll"
    /\ UNCHANGED <<regVars, ucVars, pc, arg, ret, calls, colimaCfg, http, obsVars>>

\* Faulty variant: the server is started while main still waits for the profile.
BootFinishEarly ==
    /\ boot \in {"sleep", "ready"}
    /\ boot' = "serving"
    /\ UNCHANGED <<regVars, ucVars, pc, arg, ret, calls, colimaCfg, http, obsVars>>

\* main after the wait: with Kubernetes requested it calls GetKubeConfig once, and
\* log.Fatal ends it on an error; then the routes are set up and e.Start is called.
BootFinish ==
    /\ boot \in {"next", "kube", "ready"}
    /\ \/ /\ boot = "next"
          /\ colimaCfg.Kubernetes
          /\ GetKubeConfigCall(1, colimaCfg.Profile)
       \/ /\ boot = "next"
          /\ ~colimaCfg.Kubernetes
          /\ boot' = "ready"
          /\ UNCHANGED <<regVars, ucVars, pc, arg, ret, calls, colimaCfg, http, obsVars>>
       \/ /\ boot = "kube"
          /\ GetKubeConfigRead(1)
       \/ /\ boot = "kube"
          /\ pc[1] = "idle"
          /\ boot' = IF ret[1] = "ok" THEN "ready" ELSE "fatal"
          /\ UNCHANGED <<regVars, ucVars, pc, arg, ret, calls, colimaCfg, http, obsVars>>
       \/ /\ boot = "ready"
          /\ boot' = "serving"
          /\ UNCHANGED <<regVars, ucVars, pc, arg, ret, calls, colimaCfg, http, obsVars>>

\* The configurations main can build: a profile name that is not empty, and what
\* the configuration file or the defaults say about Kubernetes.
BootConfigs ==
    {[BootConfig(p) EXCEPT !.Kubernetes = k] : p \in ProfileNames, k \in BOOLEAN}

InitBoot ==
    /\ locks = EmptyMap
    /\ mu = FALSE
    /\ holders = [n \in ProfileNames |-> {}]
    /\ dirs \in SUBSET ProfileNames
    /\ pc = [t \in Threads |-> "idle"]
    /\ arg = [t \in Threads |-> ""]
    /\ req = [t \in Threads |-> ZeroConfig]
    /\ cfg = [t \in Threads |-> ZeroConfig]
    /\ ret = [t \in Threads |-> "none"]
    /\ calls = 0
    /\ obs = [t \in Threads |-> NoObs]
    /\ rec = TRUE
    /\ http = NoHttp
    /\ \/ boot = "start" /\ colimaCfg \in BootConfigs
       \/ boot = "ready" /\ colimaCfg = ZeroConfig

NextBoot ==
    \/ BootStart
    \/ StartCheck1(1)
    \/ StartUpdate(1)
    \/ StartCheck2(1)
    \/ StartVMExit(1)
    \/ BootStarted
    \/ BootPoll
    \/ StatusProbeExit(1)
    \/ BootPolled
    \/ BootWake
    \/ BootFinish
    \/ UseCaseCall(2)
    \/ UseCaseStep(2)

SpecBoot == InitBoot /\ [][NextBoot]_vars

\* What main does, and the steps of the calls it makes.
MainNext ==
    \/ BootStart
    \/ StartCheck1(1)
    \/ StartUpdate(1)
    \/ StartCheck2(1)
    \/ StartVMExit(1)
    \/ BootStarted
    \/ BootPoll
    \/ StatusProbeExit(1)
    \/ BootPolled
    \/ BootWake
    \/ BootFinish

\* main alone: it runs on as long as it can, and every process it starts exits.
FairSpecBoot == InitBoot /\ [][MainNext]_vars /\ WF_vars(MainNext)

-----------------------------------------------------------------------------
(* Where a thread is.                                                      *)

InStart(t) == pc[t] \in {"start_check1", "start_update", "start_check2", "start_vm"}

InStop(t) == pc[t] = "stop_vm"

InClean(t) == pc[t] \in {"clean_stop", "clean_delete", "clean_rm_colima", "clean_rm_lima"}

InReadOnly(t) ==
    pc[t] \in {"status_probe", "kube_read", "deps_check", "deps_update",
               "islocked_mu", "islocked_read"}

InRegistry(t) ==
    pc[t] \in {"lock_mu", "lock_test", "lock_set", "unlock_mu", "unlock_delete",
               "islocked_mu", "islocked_read"}

\* A colima process that changes a profile is running for t.
AtVMManager(t) == pc[t] \in {"start_vm", "stop_vm", "clean_stop", "clean_delete"}

\* t, which is running a call, takes a step.
Steps(t) == pc'[t] # pc[t]

IsLocked(p) == MapGet(locks, p)

-----------------------------------------------------------------------------
(* C1: of two Start calls on one profile that overlap, only one is past    *)
(* the lock, at the dependency check or the VM manager; the other has      *)
(* returned ProfileBusy.  Start never asks the registry, so this fails.    *)

C1_OverlappingStartsExclude ==
    \A t, u \in Threads :
        (t # u /\ InStart(t) /\ InStart(u)) => arg[t] # arg[u]

(* C2: at most one caller holds a name: of the Lock(name) calls made       *)
(* while the name is free, with no Unlock(name) between them, one returns  *)
(* true and every other returns false.                                     *)

C2_OneHolder ==
    \A n \in ProfileNames :
        /\ Cardinality(holders[n]) <= 1
        /\ (holders[n] # {}) <=> IsLocked(n)

C2_GrantOnlyWhenFree ==
    \A t \in Threads :
        (pc[t] \in {"lock_test", "lock_set"} /\ pc'[t] = "idle") =>
            /\ ret'[t] = "true" <=> ~IsLocked(arg[t])
            /\ ret'[t] = "false" <=> IsLocked(arg[t])
            /\ MapGet(locks', arg[t])

C2_AtMostOneHolder == []C2_OneHolder /\ [][C2_GrantOnlyWhenFree]_vars

\* One caller holds the name and another caller's Lock of it is about to be refused.
C2_Witness ==
    \E t, u \in Threads :
        /\ t # u
        /\ pc[u] = "lock_test"
        /\ holders[arg[u]] = {t}
        /\ ret[t] = "true"

(* C3: Lock of a held name returns false at once, for the holder too,      *)
(* leaves the table as it is, and every registry call returns.             *)

C3_HeldIsRefused ==
    \A t \in Threads :
        (pc[t] = "lock_test" /\ Steps(t) /\ IsLocked(arg[t])) =>
            /\ ret'[t] = "false"
            /\ pc'[t] = "idle"
            /\ locks' = locks

C3_CallsReturn == \A t \in Threads : InRegistry(t) ~> (pc[t] = "idle")

C3_LockNeverBlocks == [][C3_HeldIsRefused]_vars /\ C3_CallsReturn

\* The holder of a name has called Lock of that name again and been refused.
C3_Witness ==
    \E t \in Threads, n \in ProfileNames :
        /\ t \in holders[n]
        /\ pc[t] = "idle"
        /\ arg[t] = n
        /\ ret[t] = "false"

(* C4: Unlock of a name nobody holds changes nothing, no Unlock changes    *)
(* another name, and a second Unlock in a row changes nothing more.        *)

C4_UnlockStep ==
    \A t \in Threads :
        (pc[t] = "unlock_delete" /\ Steps(t)) =>
            /\ ~IsLocked(arg[t]) => locks' = locks
            /\ \A m \in ProfileNames \ {arg[t]} : MapGet(locks', m) = IsLocked(m)
            /\ ~MapGet(locks', arg[t])
            /\ MapDelete(locks', arg[t]) = locks'

C4_UnlockIdempotent == [][C4_UnlockStep]_vars

\* Unlock of a free name is running while another name is held.
C4_Witness ==
    \E t \in Threads :
        /\ pc[t] = "unlock_delete"
        /\ ~IsLocked(arg[t])
        /\ \E m \in ProfileNames \ {arg[t]} : IsLocked(m)

(* C5: work on one name does not get in the way of work on another: no     *)
(* Start or Stop is refused as busy, and whether Lock(b) is granted        *)
(* depends on b alone, whatever other names are held.                      *)

C5_NeverBusy == \A t \in Threads : ret[t] # "ProfileBusy"

C5_LockLooksAtOwnName ==
    \A t \in Threads :
        (pc[t] \in {"lock_test", "lock_set"} /\ pc'[t] = "idle") =>
            (ret'[t] = "true" <=> ~IsLocked(arg[t]))

C5_NamesIndependent == []C5_NeverBusy /\ [][C5_LockLooksAtOwnName]_vars

\* Start of one profile is under way and Start of another has reached the VM manager.
C5_Witness ==
    \E t, u \in Threads :
        /\ InStart(t)
        /\ pc[u] = "start_vm"
        /\ arg[t] # arg[u]

(* C6: a Start or Stop on p holds the lock for p while it runs and has     *)
(* released it when it returns: the lock is free whenever no Start or Stop *)
(* on p is in flight.  Start and Stop never take the lock (C1, C7), so     *)
(* there is nothing they release.                                          *)

C7_OneMutatorAtVMManager ==
    \A t, u \in Threads :
        (t # u /\ pc[t] \in {"start_vm", "stop_vm"} /\ pc[u] \in {"start_vm", "stop_vm"})
            => arg[t] # arg[u]

(* C8: Status, GetKubeConfig, CheckDependencies, UpdateDependencies and    *)
(* IsLocked leave the registry table alone, are never refused as busy and  *)
(* never wait for a profile lock: held or free, they run the same.         *)

C8_ReadOnlyStep ==
    \A t \in Threads :
        ((InReadOnly(t) \/ InReadOnly(t)') /\ Steps(t)) =>
            /\ locks' = locks
            /\ holders' = holders
            /\ ret'[t] # "ProfileBusy"

C8_ReadOnlyRuns ==
    \A t \in Threads :
        /\ pc[t] = "status_probe" => ENABLED StatusProbeExit(t)
        /\ pc[t] = "kube_read" => ENABLED GetKubeConfigRead(t)
        /\ pc[t] = "deps_check" => ENABLED CheckDependenciesExit(t)
        /\ pc[t] = "deps_update" => ENABLED UpdateDependenciesExit(t)
        /\ CanCall(t) =>
             \A p \in ArgNames :
                /\ ENABLED (StatusCall(t, p) /\ ret'[t] # "ProfileBusy")
                /\ ENABLED (GetKubeConfigCall(t, p) /\ ret'[t] # "ProfileBusy")

C8_ReadOnlyIgnoresLock == []C8_ReadOnlyRuns /\ [][C8_ReadOnlyStep]_vars

\* Status of a profile whose lock is held has returned what the probe said.
C8_Witness ==
    \E t \in Threads :
        /\ pc[t] = "idle"
        /\ ret[t] = "ProfileNotStarted"
        /\ IsLocked(arg[t])

(* C9: Clean never tests or takes the lock: with the lock for p held it    *)
(* goes on to stop, delete and removal and is never refused as busy, so    *)
(* Clean(p) and Start(p) can be at the VM manager together.                *)

C9_CleanStep ==
    \A t \in Threads :
        ((InClean(t) \/ InClean(t)') /\ Steps(t)) =>
            /\ UNCHANGED regVars
            /\ ret'[t] # "ProfileBusy"

C9_CleanRuns ==
    \A t \in Threads :
        /\ InClean(t) => ENABLED (CleanStopExit(t) \/ CleanDeleteExit(t)
                                      \/ CleanRemoveColima(t) \/ CleanRemoveLima(t))
        /\ CanCall(t) =>
             \A p \in ProfileNames :
                (IsLocked(p) /\ checkProfileExists(p)) =>
                    ENABLED (CleanCall(t, p) /\ pc'[t] = "clean_stop")

C9_CleanIgnoresLock == []C9_CleanRuns /\ [][C9_CleanStep]_vars

\* Start(p) and Clean(p) each have a colima process running.
C9_Witness ==
    \E t, u \in Threads :
        /\ pc[t] = "start_vm"
        /\ pc[u] \in {"clean_stop", "clean_delete"}
        /\ arg[t] = arg[u]

(* C10: Start with nothing set but Profile "x" hands the VM manager CPUs   *)
(* 12, memory 32, disk 100, VM type "vz", runtime "containerd" and profile *)
(* "x"; with the profile empty too, profile "default".                     *)

NothingSet(c) ==
    /\ c.CPUs = 0 /\ c.Memory = 0 /\ c.DiskSize = 0
    /\ c.VMType = "" /\ c.Runtime = ""

C10_DefaultsApplied ==
    \A t \in Threads :
        (pc[t] = "start_vm" /\ NothingSet(req[t])) =>
            /\ cfg[t].CPUs = 12 /\ cfg[t].Memory = 32 /\ cfg[t].DiskSize = 100
            /\ cfg[t].VMType = "vz" /\ cfg[t].Runtime = "containerd"
            /\ req[t].Profile = "x" => cfg[t].Profile = "x"
            /\ req[t].Profile = "" => cfg[t].Profile = "default"
            /\ SubSeq(StartArgs(cfg[t]), 1, 11) =
                 <<"start", "--cpu", 12, "--memory", 32, "--disk", 100,
                   "--vm-type", "vz", "--runtime", "containerd">>
            /\ req[t].Profile = "x" =>
                 SubSeq(StartArgs(cfg[t]), Len(StartArgs(cfg[t])) - 1, Len(StartArgs(cfg[t])))
                    = <<"-p", "x">>

\* colima start is running for a Start that was given nothing but Profile "x".
C10_Witness ==
    \E t \in Threads :
        /\ pc[t] = "start_vm"
        /\ req[t] = [ZeroConfig EXCEPT !.Profile = "x"]

(* C11: merging the defaults changes only what is zero or empty: a         *)
(* non-zero number and a non-empty string reach colima start as supplied,  *)
(* and the two flags reach it as supplied, a false one staying false.      *)

C11_OnlyUnsetFieldsChange ==
    \A t \in Threads :
        pc[t] = "start_vm" =>
            /\ req[t].CPUs # 0 => cfg[t].CPUs = req[t].CPUs
            /\ req[t].Memory # 0 => cfg[t].Memory = req[t].Memory
            /\ req[t].DiskSize # 0 => cfg[t].DiskSize = req[t].DiskSize
            /\ req[t].VMType # "" => cfg[t].VMType = req[t].VMType
            /\ req[t].Runtime # "" => cfg[t].Runtime = req[t].Runtime
            /\ req[t].Profile # "" => cfg[t].Profile = req[t].Profile
            /\ cfg[t].NetworkAddress = req[t].NetworkAddress
            /\ cfg[t].Kubernetes = req[t].Kubernetes
            /\ SubSeq(StartArgs(cfg[t]), 1, 11) =
                 <<"start", "--cpu", cfg[t].CPUs, "--memory", cfg[t].Memory,
                   "--disk", cfg[t].DiskSize, "--vm-type", cfg[t].VMType,
                   "--runtime", cfg[t].Runtime>>
            /\ (\E i \in 12..Len(StartArgs(cfg[t])) :
                    StartArgs(cfg[t])[i] = "--network-address") <=> req[t].NetworkAddress
            /\ (\E i \in 12..Len(StartArgs(cfg[t])) :
                    StartArgs(cfg[t])[i] = "--kubernetes") <=> req[t].Kubernetes

\* colima start is running for a request with numbers and strings set and both flags false.
C11_Witness ==
    \E t \in Threads :
        /\ pc[t] = "start_vm"
        /\ req[t].CPUs = 4 /\ req[t].Memory = 4 /\ req[t].DiskSize = 4
        /\ req[t].VMType = "qemu" /\ req[t].Runtime = "qemu"
        /\ ~req[t].NetworkAddress /\ ~req[t].Kubernetes
        /\ DefaultColimaConfig.NetworkAddress /\ DefaultColimaConfig.Kubernetes

(* C12: every config handed to colima start has CPUs, memory and disk size *)
(* above zero and a non-empty VM type, runtime and profile, whatever the   *)
(* caller supplied, negative numbers included.                             *)

C12_ConfigWellFormed ==
    \A t \in Threads :
        pc[t] = "start_vm" =>
            /\ cfg[t].CPUs > 0 /\ cfg[t].Memory > 0 /\ cfg[t].DiskSize > 0
            /\ cfg[t].VMType # "" /\ cfg[t].Runtime # "" /\ cfg[t].Profile # ""

-----------------------------------------------------------------------------
(* Reading the record of a call.                                           *)

\* The call t made last was to op and has returned.
Returned(t, op) ==
    /\ pc[t] = "idle"
    /\ ret[t] # "none"
    /\ obs[t].cmds # <<>>
    /\ obs[t].cmds[1] = Op(op)

\* t is running, or has last run, a call to op.
Called(t, op) == obs[t].cmds # <<>> /\ obs[t].cmds[1] = Op(op)

\* Where in the record of t the operation or command c is.
At(t, c) == {i \in DOMAIN obs[t].cmds : obs[t].cmds[i].cmd = c}

\* The entry e is in the record of t.
Has(t, e) == \E i \in DOMAIN obs[t].cmds : obs[t].cmds[i] = e

(* C13: when Homebrew is not found, CheckDependencies returns a dependency *)
(* fault for "homebrew", reason "not installed or not in PATH", without    *)
(* looking for Colima or Lima, and the use case returns it with no status. *)

C13_NoHomebrewStopsCheck ==
    \A t \in Threads :
        (Returned(t, "CheckDependencies") /\ Has(t, Cmd("brew --prefix", FALSE))) =>
            /\ ret[t] = "DependencyError"
            /\ obs[t].dep = "homebrew"
            /\ obs[t].reason = <<"not installed or not in PATH">>
            /\ obs[t].snap = {}
            /\ obs[t].cmds = <<Op("CheckDependencies"), Op("repo.CheckDependencies"),
                               Cmd("brew --prefix", FALSE)>>

\* CheckDependencies has returned after brew --prefix failed.
C13_Witness ==
    \E t \in Threads :
        Returned(t, "CheckDependencies") /\ Has(t, Cmd("brew --prefix", FALSE))

(* C14: with Homebrew found, CheckDependencies looks for Colima and then   *)
(* for Lima whatever the first search gave; what is missing is false in    *)
(* the status, which is returned with no fault.                            *)

C14_BothChecksRun ==
    \A t \in Threads :
        (Returned(t, "CheckDependencies") /\ Has(t, Cmd("brew --prefix", TRUE))) =>
            /\ ret[t] = "ok"
            /\ obs[t].dep = "" /\ obs[t].reason = <<>>
            /\ Cardinality(At(t, "which colima")) = 1
            /\ Cardinality(At(t, "brew list --versions lima")) = 1
            /\ \A i \in At(t, "which colima"), j \in At(t, "brew list --versions lima") :
                 /\ i < j
                 /\ obs[t].snap = {[Homebrew |-> TRUE,
                                    Colima |-> (obs[t].cmds[i].exit = "ok"),
                                    Lima |-> (obs[t].cmds[j].exit = "ok")]}

\* CheckDependencies has returned: Colima was not found, Lima was.
C14_Witness ==
    \E t \in Threads :
        /\ Returned(t, "CheckDependencies")
        /\ Has(t, Cmd("which colima", FALSE))
        /\ Has(t, [cmd |-> "brew list --versions lima", exit |-> "ok"])
        /\ obs[t].snap = {[Homebrew |-> TRUE, Colima |-> FALSE, Lima |-> TRUE]}

(* C15: UpdateDependencies runs brew update and then brew upgrade; a       *)
(* failed update returns a fault naming homebrew and no upgrade is run; a  *)
(* failed upgrade returns a fault naming colima/lima; it succeeds only     *)
(* when both did.                                                          *)

C15_UpdateThenUpgrade ==
    \A t \in Threads :
        Returned(t, "UpdateDependencies") =>
            /\ Len(obs[t].cmds) >= 3 /\ obs[t].cmds[3].cmd = "brew update"
            /\ Has(t, Cmd("brew update", FALSE)) =>
                 /\ ret[t] = "DependencyError" /\ obs[t].dep = "homebrew"
                 /\ At(t, "brew upgrade colima lima") = {}
            /\ Has(t, Cmd("brew update", TRUE)) =>
                 /\ At(t, "brew upgrade colima lima") = {4}
                 /\ Len(obs[t].cmds) = 4
            /\ Has(t, Cmd("brew upgrade colima lima", FALSE)) =>
                 ret[t] = "DependencyError" /\ obs[t].dep = "colima/lima"
            /\ ret[t] = "ok" <=> (/\ Has(t, Cmd("brew update", TRUE))
                                  /\ Has(t, Cmd("brew upgrade colima lima", TRUE)))
            /\ ret[t] \in {"ok", "DependencyError"}

\* UpdateDependencies has returned after brew update failed.
C15_Witness ==
    \E t \in Threads :
        /\ Returned(t, "UpdateDependencies")
        /\ Has(t, Cmd("brew update", FALSE))

\* The entry e says that Colima or Lima was not found.
Missing(e) ==
    \/ e = Cmd("which colima", FALSE)
    \/ e.cmd = "brew list --versions lima" /\ e.exit # "ok"

\* Between places i and j the record of t has something not found.
MissingIn(t, i, j) == \E k \in i..j : k \in DOMAIN obs[t].cmds /\ Missing(obs[t].cmds[k])

Last(S) == CHOOSE x \in S : \A y \in S : y <= x

(* C16: one Start call tries to repair the dependencies at most once:      *)
(* UpdateDependencies is entered only when the first check found Colima or *)
(* Lima missing, and once; CheckDependencies is entered at most twice; if  *)
(* the update fails or the second check still finds one missing, Start     *)
(* returns a dependency fault and colima start is never run.               *)

C16_OneRemediation ==
    \A t \in Threads :
        Called(t, "Start") =>
            /\ Cardinality(At(t, "repo.UpdateDependencies")) <= 1
            /\ Cardinality(At(t, "repo.CheckDependencies")) <= 2
            /\ \A u \in At(t, "repo.UpdateDependencies") : MissingIn(t, 1, u)
            /\ MissingIn(t, 1, Len(obs[t].cmds)) => At(t, "repo.UpdateDependencies") # {}
            /\ (Has(t, Cmd("brew update", FALSE))
                  \/ Has(t, Cmd("brew upgrade colima lima", FALSE))) =>
                 /\ Returned(t, "Start") /\ ret[t] = "DependencyError"
                 /\ At(t, "repo.Start") = {} /\ At(t, "colima start") = {}
            /\ (/\ Cardinality(At(t, "repo.CheckDependencies")) = 2
                /\ MissingIn(t, Last(At(t, "repo.CheckDependencies")), Len(obs[t].cmds))) =>
                 /\ Returned(t, "Start") /\ ret[t] = "DependencyError"
                 /\ obs[t].dep = "colima/lima"
                 /\ At(t, "repo.Start") = {} /\ At(t, "colima start") = {}

\* Start has returned a dependency fault: the check after the update still found one missing.
C16_Witness ==
    \E t \in Threads :
        /\ Returned(t, "Start")
        /\ ret[t] = "DependencyError"
        /\ Cardinality(At(t, "repo.CheckDependencies")) = 2
        /\ MissingIn(t, Last(At(t, "repo.CheckDependencies")), Len(obs[t].cmds))

(* C17: one Start call runs colima start at most once, and only after its  *)
(* latest dependency check found Homebrew, Colima and Lima; when colima    *)
(* start fails, Start returns the failure and runs nothing more.           *)

C17_StartOnceAfterGoodCheck ==
    \A t \in Threads :
        Called(t, "Start") =>
            /\ Cardinality(At(t, "repo.Start")) <= 1
            /\ Cardinality(At(t, "colima start")) <= 1
            /\ \A i \in At(t, "colima start") : \E s \in At(t, "repo.Start") : s < i
            /\ \A s \in At(t, "repo.Start") :
                 \E c \in At(t, "repo.CheckDependencies") :
                    /\ c < s
                    /\ \A d \in At(t, "repo.CheckDependencies") : d <= c
                    /\ ~MissingIn(t, c, s)
                    /\ \E k \in c..s : obs[t].cmds[k] = Cmd("brew --prefix", TRUE)
                    /\ \E k \in c..s : obs[t].cmds[k] = Cmd("which colima", TRUE)
                    /\ \E k \in c..s :
                         obs[t].cmds[k] = [cmd |-> "brew list --versions lima", exit |-> "ok"]
            /\ Has(t, Cmd("colima start", FALSE)) =>
                 /\ Returned(t, "Start") /\ ret[t] = "ExecError"
                 /\ obs[t].cmds[Len(obs[t].cmds)] = Cmd("colima start", FALSE)

\* Start has returned the failure of colima start, run after an update and a second check.
C17_Witness ==
    \E t \in Threads :
        /\ Returned(t, "Start")
        /\ Has(t, Cmd("colima start", FALSE))
        /\ Cardinality(At(t, "repo.CheckDependencies")) = 2

(* C18: every Stop call enters the stop of the background daemon once,     *)
(* after the VM-manager stop, also when that stop failed.                  *)

C18_DaemonStopAttempted ==
    \A t \in Threads :
        Returned(t, "Stop") =>
            /\ Cardinality(At(t, "repo.StopDaemon")) = 1
            /\ \A d \in At(t, "repo.StopDaemon"), v \in At(t, "repo.Stop") : v < d

(* C19: what Stop returns is what the VM-manager stop gave, whatever the   *)
(* daemon stop that follows it gave: success after a stop that succeeded,  *)
(* the fault of a stop that failed.                                        *)

C20_ProbeFailureClassified ==
    \A t \in Threads :
        (Returned(t, "Status") /\ Has(t, Cmd("colima status", FALSE))) =>
            /\ ~obs[t].exitOk
            /\ obs[t].snap = {}
            /\ ret[t] \in {"ProfileNotStarted", "ProfileUnreachable", "ProfileMalfunction"}
            /\ IF \E i \in DOMAIN obs[t].out :
                      obs[t].out[i] \in {"colima is not running",
                                         "colima is not running: connection refused"}
                 THEN ret[t] = "ProfileNotStarted"
                 ELSE IF \E i \in DOMAIN obs[t].out :
                            obs[t].out[i] \in {"connection refused", "cannot connect"}
                   THEN /\ ret[t] = "ProfileUnreachable"
                        /\ obs[t].reason = <<"connection to VM failed">>
                   ELSE /\ ret[t] = "ProfileMalfunction"
                        /\ obs[t].reason = obs[t].out

\* Status has returned: the probe failed, saying both "is not running" and "connection refused".
C20_Witness ==
    \E t \in Threads :
        /\ Returned(t, "Status")
        /\ Has(t, Cmd("colima status", FALSE))
        /\ \E i \in DOMAIN obs[t].out :
             obs[t].out[i] = "colima is not running: connection refused"

\* The operations and commands of the call of t, in the order they were begun.
CmdNames(t) == [i \in DOMAIN obs[t].cmds |-> obs[t].cmds[i].cmd]

IsPrefix(a, b) == Len(a) <= Len(b) /\ a = SubSeq(b, 1, Len(a))

(* C21: when the directory of the profile does not exist, Status,           *)
(* GetKubeConfig and Stop return ProfileNotFound for that profile without   *)
(* running the status probe, reading the kubeconfig or running colima stop. *)

C21_AbsentProfileNotFound ==
    \A t \in Threads : \A op \in {"Status", "GetKubeConfig", "Stop"} :
        (Called(t, op) /\ arg[t] \notin obs[t].dirs0) =>
            /\ pc[t] = "idle"
            /\ ret[t] = "ProfileNotFound"
            /\ arg[t] = DefaultProfile(obs[t].name)
            /\ obs[t].cmds = <<Op(op), Op("repo." \o op)>>
            /\ obs[t].snap = {}

\* Stop of a profile without a directory has returned.
C21_Witness ==
    \E t \in Threads :
        /\ Returned(t, "Stop")
        /\ arg[t] \notin obs[t].dirs0
        /\ ret[t] = "ProfileNotFound"

(* C25: Clean of one named profile whose directory does not exist returns   *)
(* ProfileNotFound and runs no colima stop, no colima delete and no removal *)
(* of a directory.                                                          *)

C25_CleanAbsentNotFound ==
    \A t \in Threads :
        (Called(t, "Clean") /\ obs[t].name # "" /\ obs[t].name \notin obs[t].dirs0) =>
            /\ pc[t] = "idle"
            /\ ret[t] = "ProfileNotFound"
            /\ obs[t].cmds = <<Op("Clean"), Op("repo.Clean")>>
            /\ dirs = obs[t].dirs0

\* Clean of the absent profile x has returned.
C25_Witness ==
    \E t \in Threads :
        /\ Returned(t, "Clean")
        /\ obs[t].name = "x"
        /\ "x" \notin obs[t].dirs0
        /\ ret[t] = "ProfileNotFound"

(* C26: in Clean, for one profile or for all, a failed colima stop does not *)
(* end the call: colima delete is run next, and when the delete and both    *)
(* removals succeed Clean returns without an error.                         *)

C26_CleanStopFailureSwallowed ==
    \A t \in Threads :
        (Returned(t, "Clean") /\ Has(t, Cmd("colima stop", FALSE))) =>
            /\ IsPrefix(<<"Clean", "repo.Clean", "colima stop", "colima delete">>, CmdNames(t))
            /\ ( /\ Has(t, Cmd("colima delete", TRUE))
                 /\ Has(t, Cmd("remove .colima", TRUE))
                 /\ Has(t, Cmd("remove .lima", TRUE)) ) => ret[t] = "ok"

\* Clean of all profiles, after a Clean of x, has returned without an error although colima stop failed.
C26_Witness ==
    \E t \in Threads :
        /\ Returned(t, "Clean")
        /\ Has(t, Cmd("colima stop", FALSE))
        /\ Has(t, Cmd("colima delete", TRUE))
        /\ ret[t] = "ok"
        /\ obs[t].name = ""
        /\ obs[t].prev = [op |-> "Clean", arg |-> "x", ret |-> "ok"]

(* C27: in Clean, when colima delete fails, Clean returns a VMManagerFault  *)
(* and removes no directory: the directories are as they were before.       *)

C27_CleanDeleteFailure ==
    \A t \in Threads :
        (Returned(t, "Clean") /\ Has(t, Cmd("colima delete", FALSE))) =>
            /\ ret[t] = "VMManagerFault"
            /\ At(t, "remove .colima") = {}
            /\ At(t, "remove .lima") = {}
            /\ dirs = obs[t].dirs0

(* C28: Clean with the empty name looks for no directory and never returns  *)
(* ProfileNotFound, also when no profile exists; it runs colima stop, then  *)
(* colima delete, then the removal of the root directories, in that order,  *)
(* and works on the empty name, not on "default".                           *)

C28_CleanAll ==
    \A t \in Threads :
        (Called(t, "Clean") /\ obs[t].name = "") =>
            /\ arg[t] = ""
            /\ ret[t] # "ProfileNotFound"
            /\ IsPrefix(CmdNames(t), <<"Clean", "repo.Clean", "colima stop", "colima delete",
                                      "remove .colima", "remove .lima">>)
            /\ pc[t] = "idle" => Len(obs[t].cmds) >= 4
            /\ Has(t, Cmd("remove .colima", TRUE)) => dirs = {}

\* Clean of all profiles has returned without an error where no profile existed.
C28_Witness ==
    \E t \in Threads :
        /\ Returned(t, "Clean")
        /\ obs[t].name = ""
        /\ obs[t].dirs0 = {}
        /\ ret[t] = "ok"
        /\ Len(obs[t].cmds) = 6

\* Some line of the probe output of t is one of the lines in S.
SomeLine(t, S) == \E i \in DOMAIN obs[t].out : obs[t].out[i] \in S

(* C22: when the probe exits with zero, Status returns no fault; the state  *)
(* is "running" iff some line contains "running", Kubernetes is true iff    *)
(* some line contains "kubernetes", a number with no line "CPU: n",         *)
(* "Memory: n" or "Disk: n" is 0, and output without any marker gives the   *)
(* empty status, not an error.                                             *)

C22_ProbeSuccessParsed ==
    \A t \in Threads :
        (Returned(t, "Status") /\ Has(t, Cmd("colima status", TRUE))) =>
            /\ ret[t] = "ok"
            /\ obs[t].reason = <<>>
            /\ \E st \in obs[t].snap :
                 /\ obs[t].snap = {st}
                 /\ st.Profile = arg[t]
                 /\ st.Status = IF SomeLine(t, {"running", "colima is running",
                                               "colima is not running",
                                               "colima is not running: connection refused"})
                                THEN "running" ELSE ""
                 /\ st.Kubernetes = SomeLine(t, {"kubernetes"})
                 /\ st.CPUs = IF SomeLine(t, {"CPU: 4"}) THEN 4 ELSE 0
                 /\ st.Memory = IF SomeLine(t, {"Memory: 8"}) THEN 8 ELSE 0
                 /\ st.DiskSize = IF SomeLine(t, {"Disk: 60"}) THEN 60 ELSE 0

\* Status has returned the empty status: the probe exited with zero and its one line has no marker.
C22_Witness ==
    \E t \in Threads :
        /\ Returned(t, "Status")
        /\ Has(t, Cmd("colima status", TRUE))
        /\ obs[t].out = <<"fatal">>
        /\ obs[t].snap = {NewStatus(arg[t])}

\* Status has returned: the probe exited with zero and a line holds "CPU:" without being "CPU: n".
C22_WitnessUnscanned ==
    \E t \in Threads :
        /\ Returned(t, "Status")
        /\ Has(t, Cmd("colima status", TRUE))
        /\ obs[t].out = <<"max CPU: 2">>

(* C23: after Start("x") has returned without an error and released the    *)
(* lock, Status("x") whose probe exits with zero and prints                 *)
(* "running\nCPU: 4\nMemory: 8\nDisk: 60\n" returns the status running,    *)
(* CPUs 4, Memory 8, DiskSize 60, Kubernetes false, for profile x.          *)

C23_StartThenStatus ==
    \A t \in Threads :
        ( /\ Returned(t, "Status")
          /\ obs[t].prev = [op |-> "Start", arg |-> "x", ret |-> "ok"]
          /\ obs[t].name = "x"
          /\ Has(t, Cmd("colima status", TRUE))
          /\ obs[t].out = HealthyOutput ) =>
            /\ ret[t] = "ok"
            /\ ~MapGet(locks, "x")
            /\ obs[t].snap = {[Profile |-> "x", Status |-> "running", CPUs |-> 4,
                               Memory |-> 8, DiskSize |-> 60, Kubernetes |-> FALSE]}

\* Status("x") has returned after Start("x") succeeded, the probe having printed the four lines.
C23_Witness ==
    \E t \in Threads :
        /\ Returned(t, "Status")
        /\ obs[t].prev = [op |-> "Start", arg |-> "x", ret |-> "ok"]
        /\ obs[t].name = "x"
        /\ Has(t, Cmd("colima status", TRUE))
        /\ obs[t].out = HealthyOutput
        /\ ret[t] = "ok"

(* C24: what Status returns depends only on whether the directory exists    *)
(* now, on the exit of this probe and on its output; nothing is kept from   *)
(* an earlier call.                                                        *)

C24_StatusNotCached ==
    \A t \in Threads :
        Returned(t, "Status") =>
            IF arg[t] \in obs[t].dirs0
              THEN /\ Cardinality(At(t, "colima status")) = 1
                   /\ ret[t] = StatusRun(obs[t].exitOk, obs[t].out, arg[t]).err
                   /\ obs[t].reason = StatusRun(obs[t].exitOk, obs[t].out, arg[t]).reason
                   /\ obs[t].snap = StatusRun(obs[t].exitOk, obs[t].out, arg[t]).snap
              ELSE /\ ret[t] = "ProfileNotFound"
                   /\ obs[t].snap = {}

\* Status has returned a fault for the profile for which the Status before it returned a status.
C24_Witness ==
    \E t \in Threads :
        /\ Returned(t, "Status")
        /\ obs[t].prev = [op |-> "Status", arg |-> arg[t], ret |-> "ok"]
        /\ ret[t] = "ProfileNotStarted"

\* main is in the loop that waits for the profile.
Polling == boot \in {"poll", "polling", "sleep"}

\* The last Status that main made, if any, returned the status of a running profile.
StatusSaysRunning ==
    (Called(1, "Status") /\ pc[1] = "idle") =>
        /\ ret[1] = "ok"
        /\ \A st \in obs[1].snap : st.Status = "running"

(* C29: when, from some point on, every Status that main makes while it     *)
(* waits returns the status Status gives for a running profile, main        *)
(* eventually sees the profile as running and leaves the loop.              *)

C29_PollingEnds == <>[](Polling /\ StatusSaysRunning) => <>(boot = "next")

(* C30: while main waits, no outcome of Status ends the process or the      *)
(* wait: after an error, or a status that is not "Running", main sleeps and *)
(* then calls Status again; it leaves the loop only on a status "Running";  *)
(* nothing counts the rounds.                                              *)

C30_PollingStep ==
    /\ Polling => boot' # "fatal"
    /\ boot' = "next" =>
         /\ boot = "polling" /\ pc[1] = "idle" /\ ret[1] = "ok"
         /\ \E st \in obs[1].snap : st.Status = "Running"
    /\ (boot = "polling" /\ pc[1] = "idle"
            /\ (ret[1] # "ok" \/ \A st \in obs[1].snap : st.Status # "Running")) =>
         boot' = "sleep"
    /\ boot = "sleep" => boot' = "poll" /\ calls' = calls
    /\ boot = "poll" =>
         /\ boot' = "polling"
         /\ obs'[1].cmds[1] = Op("Status")
         /\ obs'[1].name = arg[1]

C30_PollingGoesOn == [][C30_PollingStep]_vars

\* main sleeps after a Status that returned a fault, which was not the first Status of the wait.
C30_Witness ==
    /\ boot = "sleep"
    /\ Returned(1, "Status")
    /\ ret[1] \in {"ProfileNotStarted", "ProfileUnreachable", "ProfileMalfunction"}
    /\ obs[1].prev.op = "Status"

\* main was started with the auto flag.
Auto == colimaCfg # ZeroConfig

\* What main does about the kubeconfig, step by step.
C31_Step ==
    /\ (Called(1, "GetKubeConfig")' /\ ~Called(1, "GetKubeConfig")) =>
         /\ colimaCfg.Kubernetes
         /\ boot = "next" /\ boot' = "kube"
         /\ obs'[1].name = colimaCfg.Profile
         /\ obs'[1].prev = [op |-> "Status", arg |-> colimaCfg.Profile, ret |-> "ok"]
    /\ Called(1, "GetKubeConfig") => Called(1, "GetKubeConfig")' /\ obs'[1].prev = obs[1].prev
    /\ (boot = "kube" /\ pc[1] = "idle" /\ ret[1] # "ok") => boot' = "fatal"
    /\ boot = "fatal" => boot' = "fatal"

(* C31: main calls GetKubeConfig only when Kubernetes was asked for and     *)
(* only after a Status that said "Running"; it calls it exactly once, so    *)
(* that when Kubernetes was asked for and Status keeps returning the status *)
(* of a running profile the call is made; an error of it ends main, with no *)
(* second call.                                                            *)

C31_CredentialsOnce ==
    /\ [][C31_Step]_vars
    /\ <>[](Auto /\ colimaCfg.Kubernetes /\ Polling /\ StatusSaysRunning)
          => <>Called(1, "GetKubeConfig")

\* No request is being served, and none was, while main is short of the server.
C32_NothingServedEarly ==
    boot \notin {"off", "serving"} => calls = 0 /\ pc[2] = "idle" /\ obs[2] = NoObs

\* What moves main towards the server, step by step.
C32_Step ==
    /\ calls' # calls => boot = "serving"
    /\ boot' = "serving" => boot \in {"ready", "serving"}
    /\ (Auto /\ boot' = "ready") =>
         \/ /\ boot = "kube" /\ pc[1] = "idle" /\ ret[1] = "ok"
            /\ Called(1, "GetKubeConfig") /\ colimaCfg.Kubernetes
         \/ /\ boot = "next" /\ ~colimaCfg.Kubernetes
            /\ Returned(1, "Status") /\ ret[1] = "ok"
         \/ boot = "ready"
    /\ boot' = "next" =>
         \/ boot = "polling" /\ Returned(1, "Status") /\ ret[1] = "ok"
         \/ boot = "next"
    /\ (boot = "starting" /\ boot' = "poll") => Returned(1, "Start") /\ ret[1] = "ok"
    /\ (boot = "starting" /\ pc[1] = "idle" /\ ret[1] # "ok") => boot' = "fatal"
    /\ boot = "fatal" => boot' = "fatal" /\ obs' = obs /\ pc' = pc

(* C32: with the auto flag no request is served before main has finished    *)
(* starting the profile: the server is started only after Start returned    *)
(* without an error, a Status said "Running" and, with Kubernetes asked     *)
(* for, GetKubeConfig returned without an error; an error of Start ends     *)
(* main before any Status and before the server is started.                 *)

Taxonomy ==
    {"ProfileNotFound", "ProfileNotStarted", "ProfileUnreachable", "ProfileMalfunction",
     "ProfileBusy", "DependencyError", "VMManagerFault"}

(* C33: whatever Start, Stop, Status, GetKubeConfig, Clean,                 *)
(* CheckDependencies or UpdateDependencies returns as an error is one of    *)
(* the faults of the taxonomy; the error of a failed process, of an         *)
(* unreadable kubeconfig or of a failed removal is never returned as it is. *)

C33_ClosedTaxonomy ==
    \A t \in Threads :
        (obs[t].cmds # <<>> /\ pc[t] = "idle") => ret[t] \in {"ok"} \cup Taxonomy

\* Where an operation other than Start is once it has found the directory of its profile.
Entered(op) ==
    IF op = "Stop" THEN "stop_vm" ELSE IF op = "Status" THEN "status_probe" ELSE "kube_read"

\* A call with the empty name begins as the same call with the name "default" does.
C34_Step ==
    \A t \in Threads : \A op \in {"Start", "Stop", "Status", "GetKubeConfig"} :
        ( /\ calls' = calls + 1
          /\ obs'[t] # obs[t]
          /\ obs'[t].cmds[1] = Op(op)
          /\ obs'[t].name = "" ) =>
            /\ arg'[t] = "default"
            /\ dirs' = dirs
            /\ locks' = locks
            /\ IF op = "Start"
                 THEN /\ pc'[t] = "start_check1"
                      /\ ret'[t] = "none"
                      /\ cfg'[t] = MergeDefaults([req'[t] EXCEPT !.Profile = "default"])
                      /\ cfg'[t].Profile = "default"
                 ELSE IF "default" \in dirs
                   THEN pc'[t] = Entered(op) /\ ret'[t] = "none"
                   ELSE pc'[t] = "idle" /\ ret'[t] = "ProfileNotFound"

(* C34: Start, Stop, Status and GetKubeConfig called with the empty name    *)
(* work on "default": the directory looked for, the profile of the fault    *)
(* and the profile given to colima are "default", and the call goes as the  *)
(* same call with the name "default".                                       *)

C34_EmptyMeansDefault == [][C34_Step]_vars

\* Status with the empty name has returned the status of the profile default.
C34_Witness ==
    \E t \in Threads :
        /\ Returned(t, "Status")
        /\ obs[t].name = ""
        /\ arg[t] = "default"
        /\ ret[t] = "ok"
        /\ \E st \in obs[t].snap : st.Profile = "default"

\* The handler has answered a request on which the use case returned an error of type ty.
Answered(ty) == http.resp # NoResp /\ http.bound /\ http.err.type = ty

(* C35: whatever the operation, the handler answers a ProfileBusy fault     *)
(* with status 503, code "profile_busy" and the error "profile '<name>' is  *)
(* currently busy with another operation", and an error of no known type    *)
(* with status 500 and the text "Internal server error", not the text of    *)
(* the error.                                                              *)

C35_BusyAndUnknownAnswers ==
    /\ Answered("ProfileBusy") =>
         /\ http.resp.status = 503
         /\ http.resp.code = "profile_busy"
         /\ http.err.Profile = "x" =>
              http.resp.error = "profile 'x' is currently busy with another operation"
         /\ http.err.Profile = "default" =>
              http.resp.error = "profile 'default' is currently busy with another operation"
    /\ Answered("error") =>
         /\ http.resp = [status |-> 500, error |-> "Internal server error", code |-> ""]
         /\ http.resp.error # http.err.Reason

\* The Stop handler has answered a request for x on which the use case returned ProfileBusy.
C35_Witness ==
    /\ Answered("ProfileBusy")
    /\ http.op = "Stop"
    /\ http.err.Profile = "x"
    /\ http.resp.status = 503

\* The Clean handler has answered a request on which the use case returned an error of no known type.
C35_WitnessUnknown ==
    /\ Answered("error")
    /\ http.op = "Clean"
    /\ http.resp.status = 500

(* C36: the handler answers a DependencyFault returned by CheckDependencies *)
(* with status 503 and the message of the fault as the error.               *)

C36_DependencyFaultAnswer ==
    (Answered("DependencyError") /\ http.op = "CheckDependencies") =>
        /\ http.resp.status = 503
        /\ http.resp.error = Error(http.err)

(* C37: when Homebrew is not found by the first dependency check of Start,  *)
(* Start returns that dependency fault at once: it enters neither           *)
(* UpdateDependencies nor a second CheckDependencies and does not run       *)
(* colima start.                                                           *)

C37_NoHomebrewEndsStart ==
    \A t \in Threads :
        ( /\ Called(t, "Start")
          /\ Len(obs[t].cmds) >= 3
          /\ obs[t].cmds[3] = Cmd("brew --prefix", FALSE) ) =>
            /\ pc[t] = "idle"
            /\ ret[t] = "DependencyError"
            /\ obs[t].dep = "homebrew"
            /\ obs[t].reason = <<"not installed or not in PATH">>
            /\ obs[t].cmds = <<Op("Start"), Op("repo.CheckDependencies"),
                               Cmd("brew --prefix", FALSE)>>
            /\ dirs = obs[t].dirs0

\* Start has returned after its first check did not find Homebrew.
C37_Witness ==
    \E t \in Threads :
        /\ Returned(t, "Start")
        /\ Len(obs[t].cmds) = 3
        /\ obs[t].cmds[3] = Cmd("brew --prefix", FALSE)
        /\ ret[t] = "DependencyError"

\* The profile p is gone after a Clean of it, or of all, that returned without an error.
Cleaned(prev, p) == prev.op = "Clean" /\ prev.ret = "ok" /\ prev.arg \in {"", p}

\* Directories go with a Clean that succeeds and come back only with a colima start.
C38_Step ==
    \A t \in Threads :
        /\ (Called(t, "Clean") /\ pc[t] # "idle" /\ pc'[t] = "idle" /\ ret'[t] = "ok") =>
             IF arg[t] = "" THEN dirs' = {} ELSE arg[t] \notin dirs'
        /\ \A p \in dirs' \ dirs : \E u \in Threads : pc[u] = "start_vm" /\ arg[u] = p
        /\ \A op \in {"Status", "Stop", "GetKubeConfig", "Clean"} :
             ( /\ calls' = calls + 1
               /\ obs'[t] # obs[t]
               /\ obs'[t].cmds[1] = Op(op)
               /\ arg'[t] # ""
               /\ arg'[t] \notin dirs ) =>
                 pc'[t] = "idle" /\ ret'[t] = "ProfileNotFound"

\* The call made right after a Clean that succeeded finds the profile gone.
C38_NextCallNotFound ==
    \A t \in Threads : \A op \in {"Status", "Stop", "GetKubeConfig", "Clean"} :
        (Called(t, op) /\ arg[t] # "" /\ Cleaned(obs[t].prev, arg[t])) =>
            /\ pc[t] = "idle"
            /\ ret[t] = "ProfileNotFound"
            /\ Len(obs[t].cmds) = 2

(* C38: after Clean of one profile has returned without an error, Status,   *)
(* Stop, GetKubeConfig and Clean of that profile return ProfileNotFound     *)
(* until a Start of it makes the profile again; after Clean of all profiles *)
(* the same holds for every profile name.                                   *)

C38_GoneAfterClean == []C38_NextCallNotFound /\ [][C38_Step]_vars

\* Status of default, asked for by the empty name, has returned ProfileNotFound after Clean of all succeeded.
C38_Witness ==
    \E t \in Threads :
        /\ Returned(t, "Status")
        /\ obs[t].prev = [op |-> "Clean", arg |-> "", ret |-> "ok"]
        /\ obs[t].name = ""
        /\ arg[t] = "default"
        /\ ret[t] = "ProfileNotFound"

\* Clean of x has returned ProfileNotFound after a Clean of x that succeeded.
C38_WitnessOne ==
    \E t \in Threads :
        /\ Returned(t, "Clean")
        /\ obs[t].prev = [op |-> "Clean", arg |-> "x", ret |-> "ok"]
        /\ arg[t] = "x"
        /\ ret[t] = "ProfileNotFound"

\* The table has an entry for a name only while the name is held.
C39_EntryOnlyWhileHeld == \A n \in DOMAIN locks : locks[n] = TRUE

\* Unlock frees the name for any caller, and only Lock takes it again.
C39_Step ==
    \A t \in Threads :
        /\ (pc[t] = "unlock_delete" /\ pc'[t] = "idle") =>
             /\ arg[t] \notin DOMAIN locks'
             /\ ret'[t] = "void"
        /\ (pc[t] = "islocked_read" /\ pc'[t] = "idle") =>
             ret'[t] = IF arg[t] \in DOMAIN locks THEN "true" ELSE "false"
        /\ (pc[t] = "lock_test" /\ pc'[t] # "lock_test" /\ arg[t] \notin DOMAIN locks) =>
             pc'[t] = "lock_set"
        /\ (pc[t] = "lock_set" /\ pc'[t] = "idle") =>
             ret'[t] = "true" /\ arg[t] \in DOMAIN locks'
        /\ \A n \in ProfileNames :
             (n \notin DOMAIN locks /\ n \in DOMAIN locks') =>
                 \E u \in Threads : pc[u] = "lock_set" /\ arg[u] = n

(* C39: Unlock(name) frees the name whoever calls it: once it has returned, *)
(* and until a Lock(name) is granted, IsLocked(name) returns false and the  *)
(* next Lock(name) returns true, also when the caller of Unlock is not the  *)
(* caller whose Lock(name) was granted; no owner is kept, and the table has *)
(* an entry for a name only while it is held.                               *)

C39_UnlockByAnyone == []C39_EntryOnlyWhileHeld /\ [][C39_Step]_vars

\* Two calls were made, Lock(x) by u, granted, and Unlock(x) by another caller t: x is free.
C39_Witness ==
    \E t, u \in Threads :
        /\ t # u
        /\ pc[t] = "idle" /\ arg[t] = "x" /\ ret[t] = "void"
        /\ pc[u] = "idle" /\ arg[u] = "x" /\ ret[u] = "true"
        /\ calls = 2
        /\ "x" \notin DOMAIN locks

=============================================================================
